---- MODULE Spec2Model ----
(***************************************************************************)
(* Model of the adk-llm-bridge converters for the Anthropic Messages API   *)
(* (format B): the stream accumulator and event converter, the streaming   *)
(* driver loop of AnthropicLlm, and the request converter.                 *)
(*                                                                         *)
(* Conventions.  A JavaScript string is a sequence of one-character        *)
(* strings.  An optional value (undefined or v) is the sequence << >> or   *)
(* <<v>>.  A JavaScript Map is the sequence of its entries in insertion    *)
(* order.                                                                  *)
(***************************************************************************)
EXTENDS Integers, Sequences, FiniteSets, TLC

VARIABLES
  acc,        \* the AnthropicStreamAccumulator handed to the converter
  lastEvent,  \* the event of the latest convertAnthropicStreamEvent call
  lastResult, \* the AnthropicStreamResult that call returned
  lastThrew,  \* whether that call threw instead of returning
  deltas,     \* history: texts of the text_delta events of the current stream
  partials,   \* history: texts of the partial responses of the current stream
  regs,       \* history: per block index, the tool_use registered and the
              \* input_json_delta fragments received for it since
  pc,         \* AnthropicLlm.streamResponse: "iterating", or how its loop ended
  results,    \* the results the converter returned to streamResponse, in order
  yielded,    \* the responses streamResponse yielded, in order
  request,    \* the contents of the LlmRequest given to convertAnthropicRequest
  config,     \* the config of that LlmRequest: systemInstruction and tools
  output,     \* what convertAnthropicRequest returned, once it has
  message,    \* the Anthropic.Message given to convertAnthropicResponse
  llmResponse, \* the LlmResponse convertAnthropicResponse returned, once it has
  gen,        \* AnthropicLlm.generateContentAsync: where the generator stands
  streamMode, \* its stream argument
  failure,    \* history: the error raised in it and the responses yielded before
  calls,      \* the streaming calls in flight: per call its LLM instance, its
              \* accumulator (a reference into heap), the events delivered to
              \* it and the responses it yielded
  heap,       \* the accumulator objects created so far
  registered, \* per provider, the flag `registered` of its register module
  configs,    \* config.ts: the global configuration stored per provider
  effects,    \* history: the calls made to the register modules and, after
              \* each, the calls it made to LLMRegistry.register and console.warn
  env,        \* process.env: per environment variable its value, if set
  instances   \* the LLM instances constructed so far, in order

streamVars == <<acc, lastEvent, lastResult, lastThrew, deltas, partials, regs>>
driverVars == <<pc, results, yielded>>
requestVars == <<request, config, output>>
responseVars == <<message, llmResponse>>
\* the variables of the parts of the program other than the stream converter,
\* the streaming loop and the request converter
generateVars == <<gen, streamMode, failure>>
callVars == <<calls, heap>>
registerVars == <<registered, configs, effects>>
constructVars == <<env, instances>>
extVars == <<responseVars, generateVars, callVars, registerVars, constructVars>>
vars == <<streamVars, driverVars, requestVars, extVars>>

-----------------------------------------------------------------------------
(* Bounds of the model *)

\* text_delta events fed to one accumulator before its message_stop
MaxTextDeltas == 2
\* input_json_delta fragments appended to tool-use entries before message_stop
MaxFrags == 3
\* events the transport supplies to one streaming call
MaxStreamLen == 4
\* turns of a request
MaxTurns == 2
\* parts of a request, over all its turns
MaxRequestParts == 2
\* parts of a turn-shaped system instruction
MaxSystemParts == 2
\* nesting depth of a parameter schema
MaxSchemaDepth == 3
\* tool groups of a request
MaxToolGroups == 2
\* function declarations of a request, over all its tool groups
MaxDecls == 2
\* content blocks of a complete message
MaxBlocks == 2
\* events delivered to one of the streaming calls in flight together
MaxCallEvents == 2
\* calls made to the register and reset functions
MaxRegisterCalls == 3

-----------------------------------------------------------------------------
(* Optional values and small helpers *)

Undefined == << >>
Some(v) == <<v>>
IsDefined(o) == o # << >>

RECURSIVE Concat(_)
\* the in-order concatenation of a sequence of strings
Concat(ss) == IF ss = << >> THEN << >> ELSE Head(ss) \o Concat(Tail(ss))

RECURSIVE SumFrags(_, _)
\* the number of fragments held by the registrations of the indices in S
SumFrags(r, S) ==
  IF S = {} THEN 0
  ELSE LET i == CHOOSE x \in S : TRUE
       IN (IF IsDefined(r[i]) THEN Len(r[i][1].frags) ELSE 0)
          + SumFrags(r, S \ {i})

-----------------------------------------------------------------------------
(* JSON.parse on the alphabet { [ ] 1 k :  (k stands for the string        *)
(* literal "k", 1 for the digit 1); on this alphabet a JSON text is        *)
(*   value  ::= number | string | array | object                           *)
(*   number ::= 1+          string ::= k                                   *)
(*   array  ::= [ ] | [ value ]     object ::= { } | { k : value }         *)

JsonValue(kind, n, items) == [kind |-> kind, n |-> n, items |-> items]
EmptyObject == JsonValue("object", 0, << >>)
ParseFail == [ok |-> FALSE, val |-> EmptyObject, next |-> 0]
ParseOk(v, next) == [ok |-> TRUE, val |-> v, next |-> next]

RECURSIVE DigitsEnd(_, _)
\* the position after the run of digits starting at i
DigitsEnd(s, i) == IF i <= Len(s) /\ s[i] = "1" THEN DigitsEnd(s, i + 1) ELSE i

RECURSIVE Decimal(_, _, _)
\* the number written by the digits s[i..j-1]
Decimal(s, i, j) == IF j <= i THEN 0 ELSE 10 * Decimal(s, i, j - 1) + 1

RECURSIVE ParseValue(_, _)
\* parses one JSON value starting at position i of s
ParseValue(s, i) ==
  IF i > Len(s) THEN ParseFail
  ELSE CASE s[i] = "1" ->
              LET j == DigitsEnd(s, i)
              IN ParseOk(JsonValue("number", Decimal(s, i, j), << >>), j)
         [] s[i] = "k" -> ParseOk(JsonValue("string", 0, << >>), i + 1)
         [] s[i] = "[" ->
              IF i + 1 <= Len(s) /\ s[i + 1] = "]"
              THEN ParseOk(JsonValue("array", 0, << >>), i + 2)
              ELSE LET r == ParseValue(s, i + 1)
                   IN IF r.ok /\ r.next <= Len(s) /\ s[r.next] = "]"
                      THEN ParseOk(JsonValue("array", 0, <<r.val>>), r.next + 1)
                      ELSE ParseFail
         [] s[i] = "{" ->
              IF i + 1 <= Len(s) /\ s[i + 1] = "}"
              THEN ParseOk(EmptyObject, i + 2)
              ELSE IF i + 2 <= Len(s) /\ s[i + 1] = "k" /\ s[i + 2] = ":"
                   THEN LET r == ParseValue(s, i + 3)
                        IN IF r.ok /\ r.next <= Len(s) /\ s[r.next] = "}"
                           THEN ParseOk(JsonValue("object", 0, <<r.val>>),
                                        r.next + 1)
                           ELSE ParseFail
                   ELSE ParseFail
         [] OTHER -> ParseFail

\* JSON.parse: ok is FALSE where JSON.parse throws a SyntaxError
JsonParse(str) ==
  LET r == ParseValue(str, 1)
  IN IF r.ok /\ r.next = Len(str) + 1 THEN r ELSE ParseFail

\* safeJsonParse without its try/catch
safeJsonParseNoCatch(str) ==
  [threw |-> ~JsonParse(str).ok, val |-> JsonParse(str).val]

\* safeJsonParse: the parsed value, or {} when JSON.parse throws; it never
\* throws itself
safeJsonParse(str) ==
  [threw |-> FALSE,
   val |-> IF JsonParse(str).ok THEN JsonParse(str).val ELSE EmptyObject]

-----------------------------------------------------------------------------
(* Format-B stream events (Anthropic.MessageStreamEvent) *)

\* content block indices the transport starts blocks at
Indices == {0, 1}

\* usage.input_tokens / usage.output_tokens of an event: absent, or a count
TokenCounts == {Undefined, Some(0), Some(1), Some(2)}

Texts == {<< >>, <<"a">>, <<"b">>}
Fragments == {<<"{">>, <<"1">>, <<"k", ":", "1", "}">>}
\* the (id, name) pairs of the tool_use blocks the transport starts
ToolBlocks == {<<"call_1", "get_weather">>, <<"call_2", "get_weather">>,
               <<"call_2", "">>}

Event(type, index, kind, id, name, str, tokens) ==
  [type |-> type, index |-> index, kind |-> kind, id |-> id, name |-> name,
   str |-> str, tokens |-> tokens]

NoEvent == Event("none", 0, "", "", "", << >>, Undefined)
MessageStartEvent(n) == Event("message_start", 0, "", "", "", << >>, n)
MessageDeltaEvent(n) == Event("message_delta", 0, "", "", "", << >>, n)
ToolUseStartEvent(i, id, name) ==
  Event("content_block_start", i, "tool_use", id, name, << >>, Undefined)
TextStartEvent(i) ==
  Event("content_block_start", i, "text", "", "", << >>, Undefined)
TextDeltaEvent(i, t) ==
  Event("content_block_delta", i, "text_delta", "", "", t, Undefined)
InputJsonDeltaEvent(i, f) ==
  Event("content_block_delta", i, "input_json_delta", "", "", f, Undefined)
MessageStopEvent == Event("message_stop", 0, "", "", "", << >>, Undefined)
\* events the converter has no case for, and a delta of a type it ignores
OtherEvents ==
  {Event("ping", 0, "", "", "", << >>, Undefined),
   Event("content_block_stop", 0, "", "", "", << >>, Undefined),
   Event("content_block_delta", 0, "thinking_delta", "", "", <<"a">>, Undefined)}

-----------------------------------------------------------------------------
(* The toolUses Map: entries [key, value] in insertion order *)

MapKeys(m) == {m[j].key : j \in 1..Len(m)}
\* Map.get: the place of the entry of key k (a reference to it), or undefined
MapGet(m, k) ==
  IF k \in MapKeys(m)
  THEN Some((CHOOSE j \in 1..Len(m) : m[j].key = k))
  ELSE Undefined
\* Map.set: a present key keeps its place, a new key goes last
MapSet(m, k, v) ==
  IF k \in MapKeys(m)
  THEN [m EXCEPT ![MapGet(m, k)[1]].value = v]
  ELSE Append(m, [key |-> k, value |-> v])

-----------------------------------------------------------------------------
(* Canonical responses (LlmResponse) and stream results *)

TextPart(t) == [text |-> t]
FunctionCallPart(id, name, args) ==
  [functionCall |-> [id |-> id, name |-> name, args |-> args]]
IsTextPart(p) == "text" \in DOMAIN p
IsFunctionCallPart(p) == "functionCall" \in DOMAIN p

ModelContent(parts) == [role |-> "model", parts |-> parts]

LlmResponse(content, partial, turnComplete, usageMetadata) ==
  [content |-> content, partial |-> partial, turnComplete |-> turnComplete,
   usageMetadata |-> usageMetadata]

UsageMetadata(p, c) ==
  [promptTokenCount |-> p, candidatesTokenCount |-> c, totalTokenCount |-> p + c]

StreamResult(response, isComplete) ==
  [response |-> response, isComplete |-> isComplete]

NoResponse == StreamResult(Undefined, FALSE)

\* the outcome of one converter call: the accumulator after it, and the
\* result returned or the fact that it threw
Returned(a, result) == [acc |-> a, result |-> result, threw |-> FALSE]
Thrown(a) == [acc |-> a, result |-> NoResponse, threw |-> TRUE]

-----------------------------------------------------------------------------
(* The accumulator and convertAnthropicStreamEvent *)

createAnthropicStreamAccumulator ==
  [text |-> << >>, toolUses |-> << >>, currentBlockIndex |-> -1,
   inputTokens |-> Undefined, outputTokens |-> Undefined]

\* a JavaScript number is truthy unless it is 0 (or absent)
Truthy(tokens) == IsDefined(tokens) /\ tokens[1] # 0

\* case "message_start"
HandleMessageStart(event, a) ==
  Returned(IF Truthy(event.tokens) THEN [a EXCEPT !.inputTokens = event.tokens]
           ELSE a,
           NoResponse)

\* case "message_delta"
HandleMessageDelta(event, a) ==
  Returned(IF Truthy(event.tokens) THEN [a EXCEPT !.outputTokens = event.tokens]
           ELSE a,
           NoResponse)

\* case "content_block_start"
HandleContentBlockStart(event, a) ==
  LET a1 == [a EXCEPT !.currentBlockIndex = event.index]
  IN Returned(IF event.kind = "tool_use"
              THEN [a1 EXCEPT !.toolUses =
                      MapSet(a.toolUses, event.index,
                             [id |-> event.id, name |-> event.name, input |-> << >>])]
              ELSE a1,
              NoResponse)

\* text_delta handling that keeps only the latest delta's text
HandleTextDeltaOverwrite(event, a) ==
  Returned([a EXCEPT !.text = event.str],
           StreamResult(
             Some(LlmResponse(Some(ModelContent(<<TextPart(event.str)>>)),
                              Some(TRUE), Undefined, Undefined)),
             FALSE))

\* case "content_block_delta", delta.type === "text_delta"
HandleTextDelta(event, a) ==
  Returned([a EXCEPT !.text = a.text \o event.str],
           StreamResult(
             Some(LlmResponse(Some(ModelContent(<<TextPart(event.str)>>)),
                              Some(TRUE), Undefined, Undefined)),
             FALSE))

\* input_json_delta handling that appends to the block started last
HandleInputJsonDeltaCurrentBlock(event, a) ==
  LET at == MapGet(a.toolUses, a.currentBlockIndex)
  IN Returned(IF IsDefined(at)
              THEN [a EXCEPT !.toolUses[at[1]].value.input = @ \o event.str]
              ELSE a,
              NoResponse)

\* case "content_block_delta", delta.type === "input_json_delta"
HandleInputJsonDelta(event, a) ==
  LET at == MapGet(a.toolUses, event.index)
  IN Returned(IF IsDefined(at)
              THEN [a EXCEPT !.toolUses[at[1]].value.input = @ \o event.str]
              ELSE a,
              NoResponse)

\* content_block_delta handling that emits nothing for an empty text delta
HandleContentBlockDeltaSkipEmpty(event, a) ==
  IF event.kind = "text_delta" /\ event.str # << >> THEN HandleTextDelta(event, a)
  ELSE IF event.kind = "text_delta"
       THEN Returned([a EXCEPT !.text = a.text \o event.str], NoResponse)
  ELSE IF event.kind = "input_json_delta" THEN HandleInputJsonDelta(event, a)
  ELSE Returned(a, NoResponse)

\* case "content_block_delta"
HandleContentBlockDelta(event, a) ==
  IF event.kind = "text_delta" THEN HandleTextDelta(event, a)
  ELSE IF event.kind = "input_json_delta" THEN HandleInputJsonDelta(event, a)
  ELSE Returned(a, NoResponse)

RECURSIVE ToolUseParts(_)
\* the function-call parts of the entries of toolUses, in Map order
ToolUseParts(m) ==
  IF m = << >> THEN << >>
  ELSE LET toolUse == Head(m).value
       IN (IF toolUse.name # ""
           THEN <<FunctionCallPart(toolUse.id, toolUse.name,
                                   safeJsonParse(toolUse.input).val)>>
           ELSE << >>) \o ToolUseParts(Tail(m))

\* whether building the function-call parts throws
ToolUsePartsThrow(m) ==
  \E j \in 1..Len(m) :
    m[j].value.name # "" /\ safeJsonParse(m[j].value.input).threw

\* terminal parts with the function calls before the text
FinalPartsToolsFirst(a) ==
  ToolUseParts(a.toolUses)
  \o (IF a.text # << >> THEN <<TextPart(a.text)>> ELSE << >>)

\* the parts of the terminal response
FinalParts(a) ==
  (IF a.text # << >> THEN <<TextPart(a.text)>> ELSE << >>)
  \o ToolUseParts(a.toolUses)

\* usage metadata that is zero-filled when nothing was captured
FinalUsageZeroFilled(a) ==
  Some(UsageMetadata(IF IsDefined(a.inputTokens) THEN a.inputTokens[1] ELSE 0,
                     IF IsDefined(a.outputTokens) THEN a.outputTokens[1] ELSE 0))

\* the usage metadata of the terminal response
FinalUsage(a) ==
  IF IsDefined(a.inputTokens) \/ IsDefined(a.outputTokens)
  THEN Some(UsageMetadata(IF IsDefined(a.inputTokens) THEN a.inputTokens[1] ELSE 0,
                          IF IsDefined(a.outputTokens) THEN a.outputTokens[1] ELSE 0))
  ELSE Undefined

\* a reset that leaves the token counters alone
ResetAccumulatorKeepTokens(a) ==
  [a EXCEPT !.text = << >>, !.toolUses = << >>, !.currentBlockIndex = -1]

\* the accumulator after the reset of case "message_stop"
ResetAccumulator(a) ==
  [a EXCEPT !.text = << >>, !.toolUses = << >>, !.currentBlockIndex = -1,
            !.inputTokens = Undefined, !.outputTokens = Undefined]

\* case "message_stop"
HandleMessageStop(event, a) ==
  LET parts == FinalParts(a)
  IN IF ToolUsePartsThrow(a.toolUses) THEN Thrown(a)
     ELSE Returned(ResetAccumulator(a),
                   StreamResult(
                     Some(LlmResponse(IF Len(parts) > 0
                                      THEN Some(ModelContent(parts))
                                      ELSE Undefined,
                                      Undefined, Some(TRUE), FinalUsage(a))),
                     TRUE))

\* the accumulator after the call, and the result returned
convertAnthropicStreamEvent(event, a) ==
  CASE event.type = "message_start" -> HandleMessageStart(event, a)
    [] event.type = "message_delta" -> HandleMessageDelta(event, a)
    [] event.type = "content_block_start" -> HandleContentBlockStart(event, a)
    [] event.type = "content_block_delta" -> HandleContentBlockDelta(event, a)
    [] event.type = "message_stop" -> HandleMessageStop(event, a)
    [] OTHER -> Returned(a, NoResponse)

-----------------------------------------------------------------------------
(* Feeding events to one accumulator, one convertAnthropicStreamEvent call  *)
(* per step.  The histories restart with the first event after a           *)
(* message_stop, when the accumulator has been reset.                      *)

NoRegs == [i \in Indices |-> Undefined]

\* the number of fragments held by the registrations
NumFrags(r) == SumFrags(r, Indices)

\* the histories an event is added to
CurDeltas == IF lastEvent.type = "message_stop" THEN << >> ELSE deltas
CurPartials == IF lastEvent.type = "message_stop" THEN << >> ELSE partials
CurRegs == IF lastEvent.type = "message_stop" THEN NoRegs ELSE regs

IsPartialText(result) ==
  /\ IsDefined(result.response)
  /\ result.response[1].partial = Some(TRUE)

\* the histories after an event
DeltasAfter(event) ==
  IF event.type = "content_block_delta" /\ event.kind = "text_delta"
  THEN Append(CurDeltas, event.str)
  ELSE CurDeltas

RegsAfter(event) ==
  IF event.type = "content_block_start" /\ event.kind = "tool_use"
  THEN [CurRegs EXCEPT ![event.index] =
          Some([id |-> event.id, name |-> event.name, frags |-> << >>])]
  ELSE IF /\ event.type = "content_block_delta"
          /\ event.kind = "input_json_delta"
          /\ IsDefined(CurRegs[event.index])
       THEN [CurRegs EXCEPT ![event.index][1].frags = Append(@, event.str)]
       ELSE CurRegs

\* one call convertAnthropicStreamEvent(event, acc)
Feed(event) ==
  LET out == convertAnthropicStreamEvent(event, acc)
  IN /\ acc' = out.acc
     /\ lastEvent' = event
     /\ lastResult' = out.result
     /\ lastThrew' = out.threw
     /\ deltas' = DeltasAfter(event)
     /\ regs' = RegsAfter(event)
     /\ partials' = IF IsPartialText(out.result)
                    THEN Append(CurPartials,
                                out.result.response[1].content[1].parts[1].text)
                    ELSE CurPartials

\* no message under conversion
NoMessage ==
  /\ message = Undefined
  /\ llmResponse = Undefined

\* generateContentAsync not called
NoGenerate ==
  /\ gen = "idle"
  /\ streamMode = FALSE
  /\ failure = Undefined

\* the streaming calls that can be in flight together
CallIds == {1, 2}

\* a streaming call not started
IdleCall ==
  [state |-> "idle", llm |-> 0, acc |-> 0, delivered |-> << >>, yielded |-> << >>,
   sawPeer |-> FALSE]

\* no streaming call in flight
NoCalls ==
  /\ calls = [c \in CallIds |-> IdleCall]
  /\ heap = << >>

\* the providers that have a register module
Providers == {"anthropic", "openrouter", "ai-gateway"}

\* no provider registered, no global configuration stored
NoRegistration ==
  /\ registered = [p \in Providers |-> FALSE]
  /\ configs = [p \in Providers |-> Undefined]
  /\ effects = << >>

\* the environment variables the constructors read
EnvVars ==
  {"ANTHROPIC_API_KEY", "AI_GATEWAY_URL", "OPENAI_BASE_URL", "AI_GATEWAY_API_KEY",
   "OPENAI_API_KEY", "OPENROUTER_API_KEY", "OPENROUTER_SITE_URL",
   "OPENROUTER_APP_NAME"}

\* no environment variable set, no LLM instance constructed
NoInstances ==
  /\ env = [v \in EnvVars |-> Undefined]
  /\ instances = << >>

\* the other parts of the program are at rest
ExtIdle == NoMessage /\ NoGenerate /\ NoCalls /\ NoRegistration /\ NoInstances

\* a config without system instruction and without tools
Config(systemInstruction, tools) ==
  [systemInstruction |-> systemInstruction, tools |-> tools]
NoConfig == Config(Undefined, Undefined)

\* a streaming call about to iterate, with its fresh accumulator
FreshStream ==
  /\ acc = createAnthropicStreamAccumulator
  /\ lastEvent = NoEvent
  /\ lastResult = NoResponse
  /\ lastThrew = FALSE
  /\ deltas = << >>
  /\ partials = << >>
  /\ regs = NoRegs
  /\ pc = "iterating"
  /\ results = << >>
  /\ yielded = << >>

\* no request under conversion
NoRequest ==
  /\ request = << >>
  /\ config = NoConfig
  /\ output = Undefined

StreamInit == FreshStream /\ NoRequest /\ ExtIdle

\* what the steps of the converter alone leave unchanged
ConverterOnly == UNCHANGED <<driverVars, requestVars, extVars>>

\* Each action feeds one event of its type; its parameters are the values
\* the transport draws the event's fields from.

MessageStart(counts) ==
  /\ ConverterOnly
  /\ \E n \in counts : Feed(MessageStartEvent(n))

MessageDelta(counts) ==
  /\ ConverterOnly
  /\ \E n \in counts : Feed(MessageDeltaEvent(n))

ToolUseStart(indices, blocks) ==
  /\ ConverterOnly
  /\ \E i \in indices, b \in blocks : Feed(ToolUseStartEvent(i, b[1], b[2]))

TextStart(indices) ==
  /\ ConverterOnly
  /\ \E i \in indices : Feed(TextStartEvent(i))

TextDelta(indices, texts) ==
  /\ ConverterOnly
  /\ Len(CurDeltas) < MaxTextDeltas
  /\ \E i \in indices, t \in texts : Feed(TextDeltaEvent(i, t))

InputJsonDelta(indices, fragments) ==
  /\ ConverterOnly
  /\ \E i \in indices, f \in fragments :
       /\ IsDefined(CurRegs[i]) => NumFrags(CurRegs) < MaxFrags
       /\ Feed(InputJsonDeltaEvent(i, f))

Other(events) ==
  /\ ConverterOnly
  /\ \E e \in events : Feed(e)

MessageStop ==
  /\ ConverterOnly
  /\ Feed(MessageStopEvent)

Ping == Event("ping", 0, "", "", "", << >>, Undefined)

\* Streams that vary the text deltas
NextText ==
  \/ MessageStart({Some(1)})
  \/ MessageDelta({Some(1)})
  \/ ToolUseStart({0}, {<<"call_1", "get_weather">>})
  \/ TextStart(Indices)
  \/ TextDelta({1}, Texts)
  \/ InputJsonDelta({0}, {<<"{">>})
  \/ Other(OtherEvents)
  \/ MessageStop

SpecText == StreamInit /\ [][NextText]_vars

\* Streams that vary the tool-use blocks and their input fragments
NextTools ==
  \/ ToolUseStart(Indices, ToolBlocks)
  \/ TextDelta({0}, {<<"a">>})
  \/ InputJsonDelta(Indices, Fragments)
  \/ MessageStop

SpecTools == StreamInit /\ [][NextTools]_vars

\* Streams that vary the usage counts
NextUsage ==
  \/ MessageStart(TokenCounts)
  \/ MessageDelta(TokenCounts)
  \/ ToolUseStart({0}, {<<"call_1", "get_weather">>})
  \/ TextDelta({0}, {<<"a">>})
  \/ InputJsonDelta({0}, {<<"{">>})
  \/ Other({Ping})
  \/ MessageStop

SpecUsage == StreamInit /\ [][NextUsage]_vars

-----------------------------------------------------------------------------
(* AnthropicLlm.streamResponse: the loop that feeds the transport's events  *)
(* to the converter, yields the responses and stops at isComplete          *)

\* the events the transport supplies to a streaming call
DriverEvents ==
  {MessageStartEvent(Some(1)), ToolUseStartEvent(0, "call_1", "get_weather"),
   InputJsonDeltaEvent(0, <<"{">>), TextDeltaEvent(0, <<"a">>),
   MessageDeltaEvent(Some(1)), MessageStopEvent, Ping}

\* a loop that never breaks
AfterResultNoBreak(result) == "iterating"

\* if (isComplete) break;
AfterResult(result) == IF result.isComplete THEN "broke" ELSE "iterating"

\* one pass of the loop body on the next event of the stream
Iterate ==
  /\ pc = "iterating"
  /\ Len(results) < MaxStreamLen
  /\ \E e \in DriverEvents : Feed(e)
  /\ results' = Append(results, lastResult')
  /\ yielded' = IF IsDefined(lastResult'.response)
                THEN Append(yielded, lastResult'.response[1])
                ELSE yielded
  /\ pc' = IF lastThrew' THEN "threw" ELSE AfterResult(lastResult')
  /\ UNCHANGED <<requestVars, extVars>>

\* the stream has no further event: the loop ends
StreamEnds ==
  /\ pc = "iterating"
  /\ pc' = "exhausted"
  /\ UNCHANGED <<streamVars, results, yielded, requestVars, extVars>>

NextDriver ==
  \/ Iterate
  \/ StreamEnds

SpecDriver == StreamInit /\ [][NextDriver]_vars

-----------------------------------------------------------------------------
(* convertAnthropicRequest: canonical turns to format-B messages *)

RECURSIVE Digits(_)
\* the decimal digits of a number written with the digit 1 only
Digits(n) == IF n = 0 THEN << >> ELSE Digits(n \div 10) \o <<"1">>

RECURSIVE JsonStringify(_)
\* JSON.stringify of a value of the JSON model above
JsonStringify(v) ==
  CASE v.kind = "number" -> Digits(v.n)
    [] v.kind = "string" -> <<"k">>
    [] v.kind = "array" ->
         <<"[">> \o (IF v.items = << >> THEN << >> ELSE JsonStringify(v.items[1]))
         \o <<"]">>
    [] OTHER ->
         <<"{">>
         \o (IF v.items = << >> THEN << >>
             ELSE <<"k", ":">> \o JsonStringify(v.items[1]))
         \o <<"}">>

\* a Part: each of text, functionCall and functionResponse may be absent
Part(text, functionCall, functionResponse) ==
  [text |-> text, functionCall |-> functionCall,
   functionResponse |-> functionResponse]
FunctionCall(id, name, args) == [id |-> id, name |-> name, args |-> args]
FunctionResponse(id, response) == [id |-> id, response |-> response]

Turn(role, parts) == [role |-> role, parts |-> parts]

\* the ids crypto.randomUUID() returns, in call order: fresh and distinct
UuidSupply == <<"uuid_1", "uuid_2", "uuid_3", "uuid_4">>

\* format-B content blocks and messages
TextBlock(text) == [type |-> "text", text |-> text]
ToolUseBlock(id, name, input) ==
  [type |-> "tool_use", id |-> id, name |-> name, input |-> input]
ToolResultBlock(id, content) ==
  [type |-> "tool_result", tool_use_id |-> id, content |-> content]
\* a message's content is an array of blocks or a plain string
BlockContent(blocks) == [blocks |-> blocks]
StringContent(str) == [string |-> str]
Message(role, content) == [role |-> role, content |-> content]

PlaceholderMessage ==
  Message("user", StringContent("[System: Continue conversation]"))

\* a loop body that gives every tool_result a generated id
PartBlocksGeneratedIds(part, used, warned) ==
  LET hasResp == IsDefined(part.functionResponse)
      used1 == IF hasResp THEN used + 1 ELSE used
  IN [blocks |-> (IF IsDefined(part.functionCall)
                  THEN <<ToolUseBlock(part.functionCall[1].id[1],
                                      part.functionCall[1].name[1],
                                      part.functionCall[1].args[1])>>
                  ELSE << >>)
                 \o (IF hasResp
                     THEN <<ToolResultBlock(UuidSupply[used1], << >>)>> ELSE << >>),
      used |-> used1, warned |-> warned]

\* a loop body that gives every tool_use a generated id
PartBlocksFreshCallIds(part, used, warned) ==
  LET text == IF IsDefined(part.text) /\ part.text[1] # << >>
              THEN <<TextBlock(part.text[1])>> ELSE << >>
      hasCall == IsDefined(part.functionCall)
      used1 == IF hasCall THEN used + 1 ELSE used
      call == IF hasCall
              THEN LET fc == part.functionCall[1]
                   IN <<ToolUseBlock(
                          UuidSupply[used1],
                          IF IsDefined(fc.name) THEN fc.name[1] ELSE "",
                          IF IsDefined(fc.args) THEN fc.args[1] ELSE EmptyObject)>>
              ELSE << >>
      hasResp == IsDefined(part.functionResponse)
      warn == hasResp /\ (~IsDefined(part.functionResponse[1].id)
                            \/ part.functionResponse[1].id[1] = "")
      genResp == hasResp /\ ~IsDefined(part.functionResponse[1].id)
      used2 == IF genResp THEN used1 + 1 ELSE used1
      resp == IF hasResp
              THEN LET fr == part.functionResponse[1]
                   IN <<ToolResultBlock(
                          IF IsDefined(fr.id) THEN fr.id[1] ELSE UuidSupply[used2],
                          JsonStringify(IF IsDefined(fr.response)
                                        THEN fr.response[1] ELSE EmptyObject))>>
              ELSE << >>
  IN [blocks |-> text \o call \o resp, used |-> used2,
      warned |-> IF warn THEN warned + 1 ELSE warned]

\* the blocks one part contributes; used counts the randomUUID() calls made
\* so far and warned the console warnings
PartBlocks(part, used, warned) ==
  LET text == IF IsDefined(part.text) /\ part.text[1] # << >>
              THEN <<TextBlock(part.text[1])>> ELSE << >>
      hasCall == IsDefined(part.functionCall)
      genCall == hasCall /\ ~IsDefined(part.functionCall[1].id)
      used1 == IF genCall THEN used + 1 ELSE used
      call == IF hasCall
              THEN LET fc == part.functionCall[1]
                   IN <<ToolUseBlock(
                          IF IsDefined(fc.id) THEN fc.id[1] ELSE UuidSupply[used1],
                          IF IsDefined(fc.name) THEN fc.name[1] ELSE "",
                          IF IsDefined(fc.args) THEN fc.args[1] ELSE EmptyObject)>>
              ELSE << >>
      hasResp == IsDefined(part.functionResponse)
      \* !id: the id is absent or the empty string
      warn == hasResp /\ (~IsDefined(part.functionResponse[1].id)
                            \/ part.functionResponse[1].id[1] = "")
      genResp == hasResp /\ ~IsDefined(part.functionResponse[1].id)
      used2 == IF genResp THEN used1 + 1 ELSE used1
      resp == IF hasResp
              THEN LET fr == part.functionResponse[1]
                   IN <<ToolResultBlock(
                          IF IsDefined(fr.id) THEN fr.id[1] ELSE UuidSupply[used2],
                          JsonStringify(IF IsDefined(fr.response)
                                        THEN fr.response[1] ELSE EmptyObject))>>
              ELSE << >>
  IN [blocks |-> text \o call \o resp, used |-> used2,
      warned |-> IF warn THEN warned + 1 ELSE warned]

RECURSIVE ContentBlocks(_, _, _)
\* the loop over content.parts
ContentBlocks(parts, used, warned) ==
  IF parts = << >> THEN [blocks |-> << >>, used |-> used, warned |-> warned]
  ELSE LET first == PartBlocks(Head(parts), used, warned)
           rest == ContentBlocks(Tail(parts), first.used, first.warned)
       IN [blocks |-> first.blocks \o rest.blocks, used |-> rest.used,
           warned |-> rest.warned]

\* processContent that emits a message for every turn
processContentKeepEmpty(content, used, warned) ==
  LET r == ContentBlocks(content.parts, used, warned)
  IN [msg |-> Some(Message(IF content.role = "model" THEN "assistant" ELSE "user",
                           BlockContent(r.blocks))),
      used |-> r.used, warned |-> r.warned]

\* processContent: the message of a turn, or null
processContent(content, used, warned) ==
  IF Len(content.parts) = 0
  THEN [msg |-> Undefined, used |-> used, warned |-> warned]
  ELSE LET r == ContentBlocks(content.parts, used, warned)
       IN [msg |-> IF Len(r.blocks) = 0 THEN Undefined
                   ELSE Some(Message(IF content.role = "model" THEN "assistant"
                                     ELSE "user",
                                     BlockContent(r.blocks))),
           used |-> r.used, warned |-> r.warned]

RECURSIVE ProcessContents(_, _, _)
\* the loop over llmRequest.contents
ProcessContents(contents, used, warned) ==
  IF contents = << >> THEN [messages |-> << >>, used |-> used, warned |-> warned]
  ELSE LET first == processContent(Head(contents), used, warned)
           rest == ProcessContents(Tail(contents), first.used, first.warned)
       IN [messages |-> first.msg \o rest.messages, used |-> rest.used,
           warned |-> rest.warned]

\* an LlmRequest: its contents and its config
LlmRequest(contents, cfg) == [contents |-> contents, config |-> cfg]

\* the shapes of config.systemInstruction: a string, a Content (an object
\* with a parts key, whose value may be undefined) or a single Part
StringInstruction(str) == [kind |-> "string", str |-> str]
ContentInstruction(parts) == [kind |-> "content", parts |-> parts]
PartInstruction(text) == [kind |-> "part", text |-> text]

NewLine == <<"\n">>

RECURSIVE Join(_, _)
\* Array.prototype.join
Join(strs, sep) ==
  IF strs = << >> THEN << >>
  ELSE IF Len(strs) = 1 THEN strs[1]
  ELSE strs[1] \o sep \o Join(Tail(strs), sep)

RECURSIVE TruthyTexts(_)
\* parts.map((p) => p.text).filter(Boolean)
TruthyTexts(parts) ==
  IF parts = << >> THEN << >>
  ELSE (IF IsDefined(Head(parts).text) /\ Head(parts).text[1] # << >>
        THEN <<Head(parts).text[1]>> ELSE << >>)
       \o TruthyTexts(Tail(parts))

\* extractText that joins the texts without a separator
extractTextNoSeparator(parts) == Join(TruthyTexts(parts), << >>)

\* extractText: the truthy texts of the parts joined with a newline
extractText(parts) == Join(TruthyTexts(parts), NewLine)

\* extractSystemInstruction: a string, or null (here Undefined)
extractSystemInstruction(req) ==
  LET sys == req.config.systemInstruction
  IN IF ~IsDefined(sys) THEN Undefined
     ELSE IF sys[1].kind = "string"
          THEN (IF sys[1].str = << >> THEN Undefined ELSE Some(sys[1].str))
     ELSE IF sys[1].kind = "content"
          THEN Some(extractText(IF IsDefined(sys[1].parts) THEN sys[1].parts[1]
                                ELSE << >>))
     ELSE Undefined

\* system || undefined
OrUndefined(system) ==
  IF IsDefined(system) /\ system[1] # << >> THEN system ELSE Undefined

\* The values of a parameter schema: undefined, null, a number, a string, an
\* array, or an object holding its entries {key, value} in insertion order
SUndefined == [kind |-> "undefined"]
SNull == [kind |-> "null"]
SNumber(n) == [kind |-> "number", n |-> n]
SString(str) == [kind |-> "string", str |-> str]
SArray(items) == [kind |-> "array", items |-> items]
SObject(entries) == [kind |-> "object", entries |-> entries]
Entry(key, value) == [key |-> key, value |-> value]

UpperCase ==
  <<"A", "B", "C", "D", "E", "F", "G", "H", "I", "J", "K", "L", "M",
    "N", "O", "P", "Q", "R", "S", "T", "U", "V", "W", "X", "Y", "Z">>
LowerCase ==
  <<"a", "b", "c", "d", "e", "f", "g", "h", "i", "j", "k", "l", "m",
    "n", "o", "p", "q", "r", "s", "t", "u", "v", "w", "x", "y", "z">>

\* String.prototype.toLowerCase
toLowerCase(str) ==
  [i \in 1..Len(str) |->
     IF \E k \in 1..Len(UpperCase) : UpperCase[k] = str[i]
     THEN LowerCase[CHOOSE k \in 1..Len(UpperCase) : UpperCase[k] = str[i]]
     ELSE str[i]]

\* !schema: undefined, null, 0 and the empty string are falsy
Falsy(v) ==
  \/ v.kind \in {"undefined", "null"}
  \/ (v.kind = "number" /\ v.n = 0)
  \/ (v.kind = "string" /\ v.str = << >>)

\* Object.entries(schema): of an array, its items under their indices
ObjectEntries(v) ==
  IF v.kind = "array"
  THEN [i \in 1..Len(v.items) |-> Entry(<<"0", "1", "2", "3">>[i], v.items[i])]
  ELSE v.entries

RECURSIVE normalizeSchema(_)
\* normalizeSchema: undefined for a falsy or non-object schema, else a copy
\* with the string under each "type" key lowercased, made recursively for
\* the values that are objects but not arrays
normalizeSchema(schema) ==
  IF Falsy(schema) \/ schema.kind \notin {"object", "array"} THEN SUndefined
  ELSE LET input == ObjectEntries(schema)
       IN SObject([i \in 1..Len(input) |->
            LET key == input[i].key
                value == input[i].value
            IN IF key = "type" /\ value.kind = "string"
               THEN Entry(key, SString(toLowerCase(value.str)))
               ELSE IF value.kind = "object"
               THEN Entry(key, normalizeSchema(value))
               ELSE Entry(key, value)])

\* the input_schema of a declaration without usable parameters
DefaultInputSchema ==
  SObject(<<Entry("type", SString(<<"o", "b", "j", "e", "c", "t">>)),
            Entry("properties", SObject(<< >>))>>)

\* a function declaration, a tool group with function declarations, and a
\* tool group of another kind
FunctionDeclaration(name, description, parameters) ==
  [name |-> name, description |-> description, parameters |-> parameters]
FunctionGroup(decls) == [functionDeclarations |-> Some(decls)]
OtherGroup == [functionDeclarations |-> Undefined]

Tool(name, description, input_schema) ==
  [name |-> name, description |-> description, input_schema |-> input_schema]

RECURSIVE GroupTools(_)
\* the loop over group.functionDeclarations: the tools pushed and the
\* warnings logged
GroupTools(decls) ==
  IF decls = << >> THEN [tools |-> << >>, warned |-> 0]
  ELSE LET fn == Head(decls)
           rest == GroupTools(Tail(decls))
       IN IF ~IsDefined(fn.name) \/ fn.name[1] = ""
          THEN [tools |-> rest.tools, warned |-> rest.warned + 1]
          ELSE LET normalized == normalizeSchema(fn.parameters)
               IN [tools |->
                     <<Tool(fn.name[1],
                            IF IsDefined(fn.description) THEN fn.description[1]
                            ELSE << >>,
                            IF normalized = SUndefined THEN DefaultInputSchema
                            ELSE normalized)>> \o rest.tools,
                   warned |-> rest.warned]

RECURSIVE AllGroupTools(_)
\* the loop over the tool groups
AllGroupTools(groups) ==
  IF groups = << >> THEN [tools |-> << >>, warned |-> 0]
  ELSE LET first == IF IsDefined(Head(groups).functionDeclarations)
                    THEN GroupTools(Head(groups).functionDeclarations[1])
                    ELSE [tools |-> << >>, warned |-> 0]
           rest == AllGroupTools(Tail(groups))
       IN [tools |-> first.tools \o rest.tools,
           warned |-> first.warned + rest.warned]

\* convertTools that returns the array it built, empty or not
convertToolsKeepEmpty(req) ==
  LET adkTools == req.config.tools
      r == AllGroupTools(IF IsDefined(adkTools) THEN adkTools[1] ELSE << >>)
  IN [tools |-> Some(r.tools), warned |-> r.warned]

\* convertTools: the tools, or undefined when there is none
convertTools(req) ==
  LET adkTools == req.config.tools
  IN IF ~IsDefined(adkTools) \/ Len(adkTools[1]) = 0
     THEN [tools |-> Undefined, warned |-> 0]
     ELSE LET r == AllGroupTools(adkTools[1])
          IN [tools |-> IF Len(r.tools) > 0 THEN Some(r.tools) ELSE Undefined,
              warned |-> r.warned]

\* a conversion that looks at the role of the first turn, not of the first
\* message
convertAnthropicRequestFirstTurn(llmRequest) ==
  LET r == ProcessContents(llmRequest.contents, 0, 0)
  IN [messages |-> IF Len(llmRequest.contents) > 0
                      /\ llmRequest.contents[1].role = "model"
                   THEN <<PlaceholderMessage>> \o r.messages
                   ELSE r.messages,
      system |-> OrUndefined(extractSystemInstruction(llmRequest)),
      tools |-> convertTools(llmRequest).tools,
      warned |-> r.warned,
      toolsWarned |-> convertTools(llmRequest).warned]

\* convertAnthropicRequest: the messages, the system field and the tools
\* returned (and the warnings logged)
convertAnthropicRequest(llmRequest) ==
  LET r == ProcessContents(llmRequest.contents, 0, 0)
  IN [messages |-> IF Len(r.messages) > 0 /\ r.messages[1].role # "user"
                   THEN <<PlaceholderMessage>> \o r.messages
                   ELSE r.messages,
      system |-> OrUndefined(extractSystemInstruction(llmRequest)),
      tools |-> convertTools(llmRequest).tools,
      warned |-> r.warned,
      toolsWarned |-> convertTools(llmRequest).warned]

\* The requests converted: up to MaxTurns turns holding up to MaxRequestParts
\* parts in all

Roles == {"user", "model", "function"}

RequestParts ==
  {Part(Some(<<"a">>), Undefined, Undefined),
   Part(Some(<< >>), Undefined, Undefined),
   Part(Undefined,
        Some(FunctionCall(Some("call_1"), Some("get_weather"), Some(EmptyObject))),
        Undefined),
   Part(Undefined, Undefined,
        Some(FunctionResponse(Some("call_1"),
                              Some(JsonValue("object", 0,
                                             <<JsonValue("number", 1, << >>)>>))))),
   Part(Undefined, Undefined, Some(FunctionResponse(Undefined, Undefined)))}

RECURSIVE PartLists(_)
\* the sequences of exactly n parts
PartLists(n) ==
  IF n = 0 THEN {<< >>}
  ELSE {<<p>> \o ps : p \in RequestParts, ps \in PartLists(n - 1)}

RECURSIVE Requests(_, _)
\* the contents of at most t turns and n parts
Requests(t, n) ==
  IF t = 0 THEN {<< >>}
  ELSE {<< >>} \cup
       UNION {{<<Turn(role, ps)>> \o rest :
                 role \in Roles, ps \in PartLists(k), rest \in Requests(t - 1, n - k)}
              : k \in 0..n}

RequestInit ==
  /\ FreshStream
  /\ request \in Requests(MaxTurns, MaxRequestParts)
  /\ config = NoConfig
  /\ output = Undefined
  /\ ExtIdle

\* the call convertAnthropicRequest(llmRequest)
ConvertRequest ==
  /\ output = Undefined
  /\ output' = Some(convertAnthropicRequest(LlmRequest(request, config)))
  /\ UNCHANGED <<request, config, streamVars, driverVars, extVars>>

NextRequest == ConvertRequest

SpecRequest == RequestInit /\ [][NextRequest]_vars

\* Requests that vary the identifiers of function calls and responses

IdParts ==
  {Part(Undefined,
        Some(FunctionCall(Some("call_1"), Some("get_weather"),
                          Some(JsonValue("object", 0, <<JsonValue("number", 1, << >>)>>)))),
        Undefined),
   Part(Undefined,
        Some(FunctionCall(Some("call_2"), Some("get_time"), Some(EmptyObject))),
        Undefined),
   Part(Undefined, Undefined, Some(FunctionResponse(Some("call_1"), Some(EmptyObject)))),
   Part(Undefined, Undefined, Some(FunctionResponse(Some("call_2"), Undefined))),
   Part(Undefined, Undefined, Some(FunctionResponse(Some(""), Some(EmptyObject)))),
   Part(Undefined, Undefined, Some(FunctionResponse(Undefined, Some(EmptyObject))))}

RECURSIVE IdPartLists(_)
\* the sequences of exactly n of these parts
IdPartLists(n) ==
  IF n = 0 THEN {<< >>}
  ELSE {<<p>> \o ps : p \in IdParts, ps \in IdPartLists(n - 1)}

RECURSIVE IdRequests(_, _)
\* the contents of at most t turns, none empty, and n parts
IdRequests(t, n) ==
  IF t = 0 \/ n = 0 THEN {<< >>}
  ELSE {<< >>} \cup
       UNION {{<<Turn(role, ps)>> \o rest :
                 role \in {"user", "model"}, ps \in IdPartLists(k),
                 rest \in IdRequests(t - 1, n - k)}
              : k \in 1..n}

IdsInit ==
  /\ FreshStream
  /\ request \in IdRequests(MaxTurns, MaxRequestParts)
  /\ config = NoConfig
  /\ output = Undefined
  /\ ExtIdle

SpecIds == IdsInit /\ [][NextRequest]_vars

\* Requests that vary the parameter schema of one function declaration

TypeString == <<"S", "T", "R", "I", "N", "G">>

SchemaLeaves ==
  {SString(TypeString), SString(toLowerCase(TypeString)), SNumber(1), SNull}

\* the entries under the key "type": none, a string or a number
TypeEntries ==
  {<< >>} \cup {<<Entry("type", v)>> : v \in SchemaLeaves \ {SNull}}

RECURSIVE Schemas(_)
\* the values nested at most d deep: the leaves, the arrays of at most one
\* item and the objects of an optional "type" entry and an optional
\* "properties" entry
Schemas(d) ==
  IF d = 0 THEN SchemaLeaves
  ELSE LET inner == Schemas(d - 1)
       IN SchemaLeaves
          \cup {SArray(<< >>)} \cup {SArray(<<v>>) : v \in inner}
          \cup {SObject(t) : t \in TypeEntries}
          \cup {SObject(t \o <<Entry("properties", v)>>) :
                  t \in TypeEntries, v \in inner}

\* the parameters of a declaration: absent, or a value that is not an array
ToolParameters(d) == {SUndefined} \cup {v \in Schemas(d) : v.kind # "array"}

SchemaInit ==
  /\ FreshStream
  /\ request = << >>
  /\ config \in
       {Config(Undefined,
               Some(<<FunctionGroup(
                        <<FunctionDeclaration(Some("test"), Some(<<"d">>), p)>>)>>)) :
          p \in ToolParameters(MaxSchemaDepth)}
  /\ output = Undefined
  /\ ExtIdle

SpecSchema == SchemaInit /\ [][NextRequest]_vars

\* Requests that vary the tool groups and their function declarations

ObjectSchema == SObject(<<Entry("type", SString(<<"O", "B", "J", "E", "C", "T">>))>>)

Declarations ==
  {FunctionDeclaration(Some("get_weather"), Some(<<"d">>), ObjectSchema),
   FunctionDeclaration(Some("get_time"), Undefined, SUndefined),
   FunctionDeclaration(Some("get_date"), Some(<<"d">>), SString(<<"x">>)),
   FunctionDeclaration(Some("get_zone"), Some(<< >>), SNull),
   FunctionDeclaration(Undefined, Some(<<"d">>), ObjectSchema),
   FunctionDeclaration(Some(""), Some(<<"d">>), ObjectSchema)}

RECURSIVE DeclarationLists(_)
\* the sequences of exactly n declarations
DeclarationLists(n) ==
  IF n = 0 THEN {<< >>}
  ELSE {<<fn>> \o fns : fn \in Declarations, fns \in DeclarationLists(n - 1)}

RECURSIVE ToolGroups(_, _)
\* the sequences of at most g tool groups holding at most n declarations
ToolGroups(g, n) ==
  IF g = 0 THEN {<< >>}
  ELSE {<< >>}
       \cup {<<OtherGroup>> \o rest : rest \in ToolGroups(g - 1, n)}
       \cup UNION {{<<FunctionGroup(fns)>> \o rest :
                      fns \in DeclarationLists(k), rest \in ToolGroups(g - 1, n - k)}
                   : k \in 0..n}

ToolsInit ==
  /\ FreshStream
  /\ request = << >>
  /\ config \in {Config(Undefined, Undefined)}
                 \cup {Config(Undefined, Some(groups)) :
                         groups \in ToolGroups(MaxToolGroups, MaxDecls)}
  /\ output = Undefined
  /\ ExtIdle

SpecToolDecls == ToolsInit /\ [][NextRequest]_vars

\* Requests that vary the system instruction

\* the parts of a turn-shaped system instruction
SystemParts ==
  {Part(Some(<<"A">>), Undefined, Undefined),
   Part(Some(<<"B">>), Undefined, Undefined),
   Part(Some(<< >>), Undefined, Undefined),
   Part(Undefined,
        Some(FunctionCall(Some("call_1"), Some("get_weather"), Some(EmptyObject))),
        Undefined)}

RECURSIVE SystemPartLists(_)
\* the sequences of at most n system parts
SystemPartLists(n) ==
  IF n = 0 THEN {<< >>}
  ELSE {<< >>} \cup {<<p>> \o ps : p \in SystemParts, ps \in SystemPartLists(n - 1)}

SystemInstructions ==
  {Undefined, Some(StringInstruction(<<"X">>)), Some(StringInstruction(<< >>)),
   Some(ContentInstruction(Undefined)), Some(PartInstruction(Some(<<"A">>)))}
  \cup {Some(ContentInstruction(Some(ps))) : ps \in SystemPartLists(MaxSystemParts)}

\* the conversations the system instruction comes with
SystemContents ==
  {<< >>,
   <<Turn("user", <<Part(Some(<<"X">>), Undefined, Undefined)>>)>>,
   <<Turn("model", <<Part(Some(<<"A">>), Undefined, Undefined)>>)>>}

SystemInit ==
  /\ FreshStream
  /\ request \in SystemContents
  /\ config \in {Config(sys, Undefined) : sys \in SystemInstructions}
  /\ output = Undefined
  /\ ExtIdle

SpecSystem == SystemInit /\ [][NextRequest]_vars

-----------------------------------------------------------------------------
(* convertAnthropicResponse: a complete format-B message to a canonical     *)
(* response                                                                 *)

\* a content block of another type than text and tool_use
ThinkingBlock == [type |-> "thinking", thinking |-> <<"a">>]

Usage(input_tokens, output_tokens) ==
  [input_tokens |-> input_tokens, output_tokens |-> output_tokens]

\* an Anthropic.Message: its content blocks and its usage
AnthropicMessage(content, usage) == [content |-> content, usage |-> usage]

RECURSIVE BlockParts(_)
\* the loop over message.content
BlockParts(blocks) ==
  IF blocks = << >> THEN << >>
  ELSE LET block == Head(blocks)
       IN (IF block.type = "text" THEN <<TextPart(block.text)>> ELSE << >>)
          \o (IF block.type = "tool_use"
              THEN <<FunctionCallPart(block.id, block.name, block.input)>>
              ELSE << >>)
          \o BlockParts(Tail(blocks))

\* convertAnthropicResponse that always returns a turn
convertAnthropicResponseAlwaysTurn(msg) ==
  LlmResponse(Some(ModelContent(BlockParts(msg.content))), Undefined, Some(TRUE),
              Undefined)

\* convertAnthropicResponse
convertAnthropicResponse(msg) ==
  LET parts == BlockParts(msg.content)
  IN LlmResponse(
       IF Len(parts) > 0 THEN Some(ModelContent(parts)) ELSE Undefined,
       Undefined,
       Some(TRUE),
       IF IsDefined(msg.usage)
       THEN Some(UsageMetadata(msg.usage[1].input_tokens, msg.usage[1].output_tokens))
       ELSE Undefined)

ResponseBlocks ==
  {TextBlock(<<"a">>), TextBlock(<< >>),
   ToolUseBlock("call_1", "get_weather",
                JsonValue("object", 0, <<JsonValue("number", 1, << >>)>>)),
   ToolUseBlock("call_2", "", EmptyObject),
   ThinkingBlock}

RECURSIVE BlockLists(_)
\* the sequences of at most n content blocks
BlockLists(n) ==
  IF n = 0 THEN {<< >>}
  ELSE {<< >>} \cup {<<b>> \o bs : b \in ResponseBlocks, bs \in BlockLists(n - 1)}

Usages == {Undefined, Some(Usage(0, 0)), Some(Usage(2, 1))}

ResponseInit ==
  /\ FreshStream
  /\ NoRequest
  /\ message \in {Some(AnthropicMessage(blocks, usage)) :
                     blocks \in BlockLists(MaxBlocks), usage \in Usages}
  /\ llmResponse = Undefined
  /\ NoGenerate
  /\ NoCalls
  /\ NoRegistration
  /\ NoInstances

\* the call convertAnthropicResponse(message)
ConvertResponse ==
  /\ IsDefined(message)
  /\ llmResponse = Undefined
  /\ llmResponse' = Some(convertAnthropicResponse(message[1]))
  /\ UNCHANGED <<message, streamVars, driverVars, requestVars, generateVars,
                 callVars, registerVars,
                 constructVars>>

NextResponse == ConvertResponse

SpecResponse == ResponseInit /\ [][NextResponse]_vars

-----------------------------------------------------------------------------
(* One message both ways: streamed event by event through                   *)
(* AnthropicLlm.streamResponse, and complete through convertAnthropicResponse *)

Event_content_block_stop(i) ==
  Event("content_block_stop", i, "", "", "", << >>, Undefined)

RECURSIVE Chunks(_)
\* a string cut into the chunks the transport sends it in, one character each
Chunks(str) ==
  IF str = << >> THEN << >> ELSE <<<<Head(str)>>>> \o Chunks(Tail(str))

\* the events of the content block at index i: its start, its deltas, its stop
BlockEvents(block, i) ==
  IF block.type = "text"
  THEN <<TextStartEvent(i)>>
       \o [j \in 1..Len(block.text) |-> TextDeltaEvent(i, Chunks(block.text)[j])]
       \o <<Event_content_block_stop(i)>>
  ELSE LET json == JsonStringify(block.input)
       IN <<ToolUseStartEvent(i, block.id, block.name)>>
          \o [j \in 1..Len(json) |-> InputJsonDeltaEvent(i, Chunks(json)[j])]
          \o <<Event_content_block_stop(i)>>

RECURSIVE ContentEvents(_, _)
\* the events of the blocks from position j on
ContentEvents(blocks, j) ==
  IF j > Len(blocks) THEN << >>
  ELSE BlockEvents(blocks[j], j - 1) \o ContentEvents(blocks, j + 1)

\* the events the API streams a message as
StreamEncoding(msg) ==
  <<MessageStartEvent(Some(msg.usage[1].input_tokens))>>
  \o ContentEvents(msg.content, 1)
  \o <<MessageDeltaEvent(Some(msg.usage[1].output_tokens)), MessageStopEvent>>

\* the text and tool_use blocks of the messages
MessageBlocks ==
  {TextBlock(<<"a">>), TextBlock(<<"b", "c">>), TextBlock(<< >>),
   ToolUseBlock("call_1", "get_weather",
                JsonValue("object", 0, <<JsonValue("number", 1, << >>)>>)),
   ToolUseBlock("call_2", "get_time", EmptyObject),
   ToolUseBlock("call_3", "", EmptyObject)}

RECURSIVE MessageBlockLists(_)
\* the sequences of at most n of these blocks
MessageBlockLists(n) ==
  IF n = 0 THEN {<< >>}
  ELSE {<< >>}
       \cup {<<b>> \o bs : b \in MessageBlocks, bs \in MessageBlockLists(n - 1)}

MessageUsages == {Usage(0, 0), Usage(0, 1), Usage(2, 1)}

\* a complete message, about to be streamed and to be converted whole
BothWaysInit ==
  /\ FreshStream
  /\ NoRequest
  /\ message \in {Some(AnthropicMessage(blocks, Some(usage))) :
                     blocks \in MessageBlockLists(MaxBlocks), usage \in MessageUsages}
  /\ llmResponse = Undefined
  /\ NoGenerate
  /\ NoCalls
  /\ NoRegistration
  /\ NoInstances

\* one pass of the loop of streamResponse on the next event of the message's
\* stream
IterateEncoded ==
  /\ pc = "iterating"
  /\ Len(results) < Len(StreamEncoding(message[1]))
  /\ LET event == StreamEncoding(message[1])[Len(results) + 1]
         out == convertAnthropicStreamEvent(event, acc)
     IN /\ acc' = out.acc
        /\ lastEvent' = event
        /\ lastResult' = out.result
        /\ lastThrew' = out.threw
        /\ results' = Append(results, out.result)
        /\ yielded' = IF IsDefined(out.result.response)
                      THEN Append(yielded, out.result.response[1])
                      ELSE yielded
        /\ pc' = IF out.threw THEN "threw" ELSE AfterResult(out.result)
  /\ UNCHANGED <<deltas, partials, regs, requestVars, responseVars, generateVars,
                 callVars, registerVars, constructVars>>

NextBothWays ==
  \/ IterateEncoded
  \/ ConvertResponse

SpecBothWays == BothWaysInit /\ [][NextBothWays]_vars

-----------------------------------------------------------------------------
(* A response's content sent back as the model turn of the next request:     *)
(* convertAnthropicResponse, then convertAnthropicRequest                    *)

\* a part of a response as a part of a request: the same object
AsRequestPart(p) ==
  IF IsTextPart(p) THEN Part(Some(p.text), Undefined, Undefined)
  ELSE Part(Undefined,
            Some(FunctionCall(Some(p.functionCall.id), Some(p.functionCall.name),
                              Some(p.functionCall.args))),
            Undefined)

\* the user turns the model turn is placed after
UserTurns ==
  {Turn("user", <<Part(Some(<<"q">>), Undefined, Undefined)>>),
   Turn("user", <<Part(Undefined, Undefined,
                       Some(FunctionResponse(Some("call_0"), Some(EmptyObject))))>>)}

\* the content of the response becomes the model turn of a request, after a
\* user turn
PlaceAsModelTurn ==
  /\ IsDefined(llmResponse)
  /\ IsDefined(llmResponse[1].content)
  /\ request = << >>
  /\ output = Undefined
  /\ \E user \in UserTurns :
       request' = <<user,
                    Turn(llmResponse[1].content[1].role,
                         [j \in 1..Len(llmResponse[1].content[1].parts) |->
                            AsRequestPart(llmResponse[1].content[1].parts[j])])>>
  /\ UNCHANGED <<config, output, streamVars, driverVars, extVars>>

\* the call convertAnthropicRequest on the request so made
ConvertPlaced ==
  /\ request # << >>
  /\ ConvertRequest

NextRoundTrip ==
  \/ ConvertResponse
  \/ PlaceAsModelTurn
  \/ ConvertPlaced

SpecRoundTrip == ResponseInit /\ [][NextRoundTrip]_vars

-----------------------------------------------------------------------------
(* Format-A streaming: OpenAICompatibleLlm.streamResponse feeds the chunks   *)
(* of the stream to convertStreamChunk, whose accumulator holds the text     *)
(* and the Map toolCalls of index to {id, name, arguments}                   *)

\* a chunk: a text delta, a delta of tool-call fragments, or the terminal
\* chunk (finish reason present), which may carry the usage
StreamChunk(type, text, fragments, usage) ==
  [type |-> type, text |-> text, fragments |-> fragments, usage |-> usage]
TextChunk(text) == StreamChunk("text", text, << >>, Undefined)
ToolCallsChunk(fragments) == StreamChunk("tool_calls", << >>, fragments, Undefined)
FinishChunk(usage) == StreamChunk("finish", << >>, << >>, usage)

\* a tool-call fragment: the first one of a call carries id and name
ToolCallFragment(index, id, name, arguments) ==
  [index |-> index, id |-> id, name |-> name, arguments |-> arguments]

ToolCallAccumulator(id, name, arguments) ==
  [id |-> id, name |-> name, arguments |-> arguments]

createStreamAccumulator == [text |-> << >>, toolCalls |-> << >>]

\* a fragment whose argument chunk replaces what the entry holds
appendFragmentOverwrite(toolCalls, fragment) ==
  LET m == IF fragment.index \in MapKeys(toolCalls) THEN toolCalls
           ELSE MapSet(toolCalls, fragment.index,
                       ToolCallAccumulator(fragment.id, fragment.name, << >>))
      at == MapGet(m, fragment.index)[1]
  IN [m EXCEPT ![at].value.arguments = fragment.arguments]

\* one fragment: a new index creates the entry (id, name, empty arguments);
\* the argument chunk is appended to the entry
appendFragment(toolCalls, fragment) ==
  LET m == IF fragment.index \in MapKeys(toolCalls) THEN toolCalls
           ELSE MapSet(toolCalls, fragment.index,
                       ToolCallAccumulator(fragment.id, fragment.name, << >>))
      at == MapGet(m, fragment.index)[1]
  IN [m EXCEPT ![at].value.arguments = @ \o fragment.arguments]

RECURSIVE appendFragments(_, _)
\* the fragments of one chunk, in order
appendFragments(toolCalls, fragments) ==
  IF fragments = << >> THEN toolCalls
  ELSE appendFragments(appendFragment(toolCalls, Head(fragments)), Tail(fragments))

\* JSON.parse of the accumulated arguments, {} when it fails
parseArguments(str) == IF JsonParse(str).ok THEN JsonParse(str).val ELSE EmptyObject

\* the function-call parts of the entries, in Map order
ToolCallParts(toolCalls) ==
  [j \in 1..Len(toolCalls) |->
     FunctionCallPart(toolCalls[j].value.id, toolCalls[j].value.name,
                      parseArguments(toolCalls[j].value.arguments))]

\* convertStreamChunk: the accumulator after the call and the result
convertStreamChunk(chunk, a) ==
  CASE chunk.type = "text" ->
         [acc |-> [a EXCEPT !.text = @ \o chunk.text],
          result |-> StreamResult(
                       Some(LlmResponse(Some(ModelContent(<<TextPart(chunk.text)>>)),
                                        Some(TRUE), Undefined, Undefined)),
                       FALSE)]
    [] chunk.type = "tool_calls" ->
         [acc |-> [a EXCEPT !.toolCalls = appendFragments(@, chunk.fragments)],
          result |-> NoResponse]
    [] chunk.type = "finish" ->
         LET parts == (IF a.text # << >> THEN <<TextPart(a.text)>> ELSE << >>)
                      \o ToolCallParts(a.toolCalls)
         IN [acc |-> createStreamAccumulator,
             result |-> StreamResult(
                          Some(LlmResponse(IF Len(parts) > 0
                                           THEN Some(ModelContent(parts))
                                           ELSE Undefined,
                                           Undefined, Some(TRUE), chunk.usage)),
                          TRUE)]
    [] OTHER -> [acc |-> a, result |-> NoResponse]

\* the fragments the transport sends: the first and a later fragment of the
\* call at index 0 and of the call at index 1
FirstFragment0 == ToolCallFragment(0, "call_1", "get_weather", <<"{">>)
NextFragment0 == ToolCallFragment(0, "", "", <<"k", ":", "1", "}">>)
FirstFragment1 == ToolCallFragment(1, "call_2", "get_time", <<"{">>)
NextFragment1 == ToolCallFragment(1, "", "", <<"}">>)

\* the chunks the transport sends
Chunks_A ==
  {TextChunk(<<"a">>), TextChunk(<<"b">>),
   ToolCallsChunk(<<FirstFragment0>>), ToolCallsChunk(<<NextFragment0>>),
   ToolCallsChunk(<<FirstFragment1>>), ToolCallsChunk(<<NextFragment1>>),
   ToolCallsChunk(<<FirstFragment0, FirstFragment1>>),
   ToolCallsChunk(<<NextFragment1, NextFragment0>>),
   ToolCallsChunk(<<FirstFragment0, NextFragment0>>),
   FinishChunk(Undefined), FinishChunk(Some(UsageMetadata(2, 1)))}

RECURSIVE RegsWith(_, _)
\* the history of the fragments by index, after the fragments of a chunk
RegsWith(r, fragments) ==
  IF fragments = << >> THEN r
  ELSE LET f == Head(fragments)
           r1 == IF IsDefined(r[f.index])
                 THEN [r EXCEPT ![f.index][1].frags = Append(@, f.arguments)]
                 ELSE [r EXCEPT ![f.index] =
                         Some([id |-> f.id, name |-> f.name,
                               frags |-> <<f.arguments>>])]
       IN RegsWith(r1, Tail(fragments))

\* for await (const chunk of stream): one pass of the loop body
IterateChunk ==
  /\ pc = "iterating"
  /\ Len(results) < MaxStreamLen
  /\ \E chunk \in Chunks_A :
       LET out == convertStreamChunk(chunk, acc)
       IN /\ acc' = out.acc
          /\ lastEvent' = chunk
          /\ lastResult' = out.result
          /\ deltas' = IF chunk.type = "text" THEN Append(deltas, chunk.text)
                        ELSE deltas
          /\ regs' = RegsWith(regs, chunk.fragments)
          /\ results' = Append(results, out.result)
          /\ yielded' = IF IsDefined(out.result.response)
                        THEN Append(yielded, out.result.response[1])
                        ELSE yielded
          /\ pc' = AfterResult(out.result)
  /\ UNCHANGED <<lastThrew, partials, requestVars, extVars>>

\* a streaming call with its fresh accumulator
ChunkInit ==
  /\ acc = createStreamAccumulator
  /\ lastEvent = NoEvent
  /\ lastResult = NoResponse
  /\ lastThrew = FALSE
  /\ deltas = << >>
  /\ partials = << >>
  /\ regs = NoRegs
  /\ pc = "iterating"
  /\ results = << >>
  /\ yielded = << >>
  /\ NoRequest
  /\ ExtIdle

NextChunks ==
  \/ IterateChunk
  \/ StreamEnds

SpecChunks == ChunkInit /\ [][NextChunks]_vars

-----------------------------------------------------------------------------
(* AnthropicLlm.generateContentAsync: request conversion, the API call, the *)
(* single response or the streaming loop, and the catch clause              *)

\* what can be thrown: an API error (an Error with a numeric status), a plain
\* Error, and a value that is not an Error
\* a thrown value: its type (typeof, null apart), whether it is an instance of
\* Error, its status property if it has one, and its text: the message of an
\* Error, the characters of a string
JsThrown(type, isError, status, text) ==
  [type |-> type, isError |-> isError, status |-> status, text |-> text]

\* the value of a status property
StatusValue(type, value) == [type |-> type, value |-> value]

ThrownError(isError, status, text) ==
  JsThrown(IF isError THEN "object" ELSE "string", isError,
           IF IsDefined(status) THEN Some(StatusValue("number", status[1]))
           ELSE Undefined,
           text)
Errors ==
  {ThrownError(TRUE, Some(429), "rate limited"),
   ThrownError(TRUE, Undefined, "network down"),
   ThrownError(FALSE, Undefined, "aborted")}

\* typeof error
TypeOf(error) == IF error.type = "null" THEN "object" ELSE error.type

\* String(error) for a value that is not an instance of Error
StringOf(error) ==
  CASE error.type = "null" -> "null"
    [] error.type = "undefined" -> "undefined"
    [] error.type = "object" -> "[object Object]"
    [] OTHER -> error.text

\* a classification by the presence of a status property, whatever its type
createErrorResponseAnyStatus(error, prefix) ==
  [errorCode |-> IF error.type # "null" /\ TypeOf(error) = "object"
                    /\ IsDefined(error.status)
                 THEN <<"API_ERROR_", error.status[1].value>>
                 ELSE <<prefix, "_ERROR">>,
   errorMessage |-> IF error.isError THEN error.text ELSE StringOf(error),
   turnComplete |-> Some(TRUE)]

\* BaseProviderLlm.createErrorResponse
createErrorResponse(error, prefix) ==
  LET isApiError ==
        /\ error.type # "null"
        /\ TypeOf(error) = "object"
        /\ IsDefined(error.status)
        /\ error.status[1].type = "number"
  IN [errorCode |-> IF isApiError THEN <<"API_ERROR_", error.status[1].value>>
                    ELSE <<prefix, "_ERROR">>,
      errorMessage |-> IF error.isError THEN error.text ELSE StringOf(error),
      turnComplete |-> Some(TRUE)]

\* a generator without the catch clause: the error leaves it
CatchClauseRethrow(error, before) == [gen |-> "escaped", yielded |-> before]

\* catch (error) { yield this.createErrorResponse(error, "ANTHROPIC"); }
\* after which the generator returns
CatchClause(error, before) ==
  [gen |-> "done", yielded |-> Append(before, createErrorResponse(error, "ANTHROPIC"))]

\* an error is raised where the generator stands
Fails(error) ==
  /\ failure' = Some([error |-> error, before |-> yielded])
  /\ gen' = CatchClause(error, yielded).gen
  /\ yielded' = CatchClause(error, yielded).yielded

GenerateRequests ==
  {<<Turn("user", <<Part(Some(<<"a">>), Undefined, Undefined)>>)>>,
   <<Turn("model", <<Part(Some(<<"a">>), Undefined, Undefined)>>)>>}

GenerateInit ==
  /\ FreshStream
  /\ request \in GenerateRequests
  /\ config = NoConfig
  /\ output = Undefined
  /\ NoMessage
  /\ NoCalls
  /\ NoRegistration
  /\ NoInstances
  /\ gen = "start"
  /\ streamMode \in BOOLEAN
  /\ failure = Undefined

\* convertAnthropicRequest(llmRequest) returns
RequestConverted ==
  /\ gen = "start"
  /\ output' = Some(convertAnthropicRequest(LlmRequest(request, config)))
  /\ gen' = "converted"
  /\ UNCHANGED <<request, config, streamVars, driverVars, responseVars,
                 streamMode, failure, callVars, registerVars,
                 constructVars>>

\* convertAnthropicRequest(llmRequest) throws
RequestConversionFails ==
  /\ gen = "start"
  /\ \E error \in Errors : Fails(error)
  /\ UNCHANGED <<requestVars, streamVars, pc, results, responseVars, streamMode,
                 callVars, registerVars,
                 constructVars>>

\* this.client.messages.stream(...) returns the stream
StreamOpens ==
  /\ gen = "converted"
  /\ streamMode
  /\ gen' = "streaming"
  /\ UNCHANGED <<requestVars, streamVars, driverVars, responseVars,
                 streamMode, failure, callVars, registerVars,
                 constructVars>>

\* the API call throws, or the promise of this.client.messages.create rejects
ApiCallFails ==
  /\ gen = "converted"
  /\ \E error \in Errors : Fails(error)
  /\ UNCHANGED <<requestVars, streamVars, pc, results, responseVars, streamMode,
                 callVars, registerVars,
                 constructVars>>

\* singleResponse: the message arrives and its conversion is yielded
SingleResponse ==
  /\ gen = "converted"
  /\ ~streamMode
  /\ \E blocks \in BlockLists(1) :
       /\ message' = Some(AnthropicMessage(blocks, Some(Usage(2, 1))))
       /\ llmResponse' = Some(convertAnthropicResponse(message'[1]))
  /\ yielded' = Append(yielded, llmResponse'[1])
  /\ gen' = "done"
  /\ UNCHANGED <<requestVars, streamVars, pc, results, streamMode, failure,
                 callVars, registerVars,
                 constructVars>>

\* streamResponse: the loop body runs on the next event
StreamIterates ==
  /\ gen = "streaming"
  /\ Iterate

\* streamResponse: the stream has no further event
StreamExhausted ==
  /\ gen = "streaming"
  /\ StreamEnds

\* streamResponse: the iteration of the stream throws
StreamFails ==
  /\ gen = "streaming"
  /\ pc = "iterating"
  /\ pc' = "threw"
  /\ \E error \in Errors : Fails(error)
  /\ UNCHANGED <<requestVars, streamVars, results, responseVars, streamMode,
                 callVars, registerVars,
                 constructVars>>

\* streamResponse has left its loop: the generator returns
StreamReturns ==
  /\ gen = "streaming"
  /\ pc \in {"broke", "exhausted"}
  /\ gen' = "done"
  /\ UNCHANGED <<requestVars, streamVars, driverVars, responseVars,
                 streamMode, failure, callVars, registerVars,
                 constructVars>>

NextGenerate ==
  \/ RequestConverted
  \/ RequestConversionFails
  \/ StreamOpens
  \/ ApiCallFails
  \/ SingleResponse
  \/ StreamIterates
  \/ StreamExhausted
  \/ StreamFails
  \/ StreamReturns

SpecGenerate == GenerateInit /\ [][NextGenerate]_vars

-----------------------------------------------------------------------------
(* The catch clauses of the providers: whatever was thrown in                 *)
(* generateContentAsync goes to createErrorResponse with the provider's prefix *)

\* the provider classes
ErrorClasses == {"AnthropicLlm", "AIGatewayLlm", "OpenRouterLlm", "SAPAICoreLlm"}

\* the prefix a class gives to createErrorResponse
getErrorPrefix(class) ==
  CASE class = "AnthropicLlm" -> "ANTHROPIC"
    [] class = "AIGatewayLlm" -> "AI_GATEWAY"
    [] class = "OpenRouterLlm" -> "OPENROUTER"
    [] class = "SAPAICoreLlm" -> "SAP_AI_CORE"

\* the values that can be thrown: Error instances with a numeric status, with
\* a string status and without status, plain objects likewise, a string, a
\* number, null and undefined
ErrorValues ==
  {JsThrown("object", TRUE, Some(StatusValue("number", 429)), "rate limited"),
   JsThrown("object", TRUE, Some(StatusValue("string", "429")), "rate limited"),
   JsThrown("object", TRUE, Undefined, "network down"),
   JsThrown("object", FALSE, Some(StatusValue("number", 500)), ""),
   JsThrown("object", FALSE, Some(StatusValue("string", "500")), ""),
   JsThrown("object", FALSE, Undefined, ""),
   JsThrown("string", FALSE, Undefined, "aborted"),
   JsThrown("number", FALSE, Undefined, "7"),
   JsThrown("null", FALSE, Undefined, ""),
   JsThrown("undefined", FALSE, Undefined, "")}

\* catch (error) { yield this.createErrorResponse(error, prefix); }
ProviderCatches ==
  \E class \in ErrorClasses, error \in ErrorValues :
    /\ gen = "start"
    /\ failure' = Some([error |-> error, before |-> yielded,
                        prefix |-> getErrorPrefix(class)])
    /\ yielded' = Append(yielded, createErrorResponse(error, getErrorPrefix(class)))
    /\ gen' = "done"
    /\ UNCHANGED <<requestVars, streamVars, pc, results, responseVars, streamMode,
                   callVars, registerVars, constructVars>>

NextErrors == ProviderCatches

SpecErrors == GenerateInit /\ [][NextErrors]_vars

-----------------------------------------------------------------------------
(* Streaming calls in flight together: each AnthropicLlm.streamResponse     *)
(* creates its accumulator and feeds it the events of its own stream        *)

\* the LLM instances a call can be made on: the first call is made on
\* instance 1, the second on the same instance or on another one
InstancesOf(c) == IF c = 1 THEN {1} ELSE {1, 2}

\* the events the transports deliver
CallEvents ==
  {ToolUseStartEvent(0, "call_1", "get_weather"), InputJsonDeltaEvent(0, <<"1">>),
   TextDeltaEvent(0, <<"a">>), MessageStopEvent}

\* an accumulator kept in one place shared by all calls
createSharedAccumulator(h) ==
  [heap |-> IF h = << >> THEN <<createAnthropicStreamAccumulator>> ELSE h, ref |-> 1]

\* const acc = createAnthropicStreamAccumulator(): a new object, referenced by
\* the local variable of this call only
createOwnAccumulator(h) ==
  [heap |-> Append(h, createAnthropicStreamAccumulator), ref |-> Len(h) + 1]

\* streamResponse is called on an instance: the stream is opened and the
\* accumulator created
StartStream ==
  \E c \in CallIds : \E llm \in InstancesOf(c) :
    /\ calls[c].state = "idle"
    /\ LET new == createOwnAccumulator(heap)
       IN /\ heap' = new.heap
          /\ calls' = [calls EXCEPT ![c].state = "iterating", ![c].llm = llm,
                                     ![c].acc = new.ref]
    /\ UNCHANGED <<streamVars, driverVars, requestVars, responseVars, generateVars, registerVars,
                 constructVars>>

\* the other call is in the middle of its stream
PeerMidStream(c) ==
  \E d \in CallIds \ {c} :
    calls[d].state = "iterating" /\ calls[d].delivered # << >>

\* the loop body of one call runs on the next event of its stream
DeliverEvent ==
  \E c \in CallIds, event \in CallEvents :
    /\ calls[c].state = "iterating"
    /\ Len(calls[c].delivered) < MaxCallEvents
    /\ LET out == convertAnthropicStreamEvent(event, heap[calls[c].acc])
       IN /\ heap' = [heap EXCEPT ![calls[c].acc] = out.acc]
          /\ calls' = [calls EXCEPT
               ![c].delivered = Append(@, event),
               ![c].yielded = IF IsDefined(out.result.response)
                              THEN Append(@, out.result.response[1]) ELSE @,
               ![c].state = AfterResult(out.result),
               ![c].sawPeer = @ \/ PeerMidStream(c)]
    /\ UNCHANGED <<streamVars, driverVars, requestVars, responseVars, generateVars, registerVars,
                 constructVars>>

\* the stream of one call has no further event
CallStreamEnds ==
  \E c \in CallIds :
    /\ calls[c].state = "iterating"
    /\ calls' = [calls EXCEPT ![c].state = "exhausted"]
    /\ UNCHANGED <<heap, streamVars, driverVars, requestVars, responseVars,
                   generateVars, registerVars,
                 constructVars>>

NextCalls ==
  \/ StartStream
  \/ DeliverEvent
  \/ CallStreamEnds

SpecCalls == StreamInit /\ [][NextCalls]_vars

-----------------------------------------------------------------------------
(* Provider registration: the register modules of the providers (one flag    *)
(* `registered` each) and the global configuration store of config.ts        *)

\* the class a register module hands to LLMRegistry.register
LlmClass(provider) ==
  CASE provider = "anthropic" -> "AnthropicLlm"
    [] provider = "openrouter" -> "OpenRouterLlm"
    [] provider = "ai-gateway" -> "AIGatewayLlm"

\* the text a register module warns with when called again
AlreadyRegistered(provider) ==
  CASE provider = "anthropic" -> "[adk-llm-bridge] Anthropic already registered"
    [] provider = "openrouter" -> "[adk-llm-bridge] OpenRouter already registered"
    [] provider = "ai-gateway" -> "[adk-llm-bridge] AI Gateway already registered"

\* the options objects a caller passes: none, an empty object, and objects
\* with different properties
RegisterOptions ==
  {Undefined,
   Some(<< >>),
   Some(<<Entry("apiKey", "key-1")>>),
   Some(<<Entry("apiKey", "key-2"), Entry("baseURL", "https://test.com")>>)}

\* { ...options }: a new object with the own properties of options, in order
SpreadCopy(options) == [i \in 1..Len(options) |-> options[i]]

\* a set that keeps the properties stored before which the new options lack
mergeProviderConfig(store, provider, options) ==
  LET old == IF IsDefined(store[provider]) THEN store[provider][1] ELSE << >>
      kept == SelectSeq(old, LAMBDA e : \A i \in 1..Len(options) : options[i].key # e.key)
  IN [store EXCEPT ![provider] = Some(kept \o SpreadCopy(options))]

\* configs[provider] = { ...options }
setProviderConfig(store, provider, options) ==
  [store EXCEPT ![provider] = Some(SpreadCopy(options))]

\* return configs[provider]
getProviderConfig(store, provider) == store[provider]

\* delete configs[provider]
resetProviderConfig(store, provider) == [store EXCEPT ![provider] = Undefined]

\* the entries of the history
RegisterCall(provider, options) ==
  [kind |-> "registerCall", provider |-> provider, arg |-> options]
ResetCall(provider) ==
  [kind |-> "resetCall", provider |-> provider, arg |-> Undefined]
RegistryRegister(provider) ==
  [kind |-> "LLMRegistry.register", provider |-> provider,
   arg |-> Some(LlmClass(provider))]
ConsoleWarn(provider) ==
  [kind |-> "console.warn", provider |-> provider,
   arg |-> Some(AlreadyRegistered(provider))]

\* the state of the register modules and of the store
RegisterState == [registered |-> registered, configs |-> configs, effects |-> effects]

\* a register function without the test of the flag
registerUnguarded(provider, options, s) ==
  [registered |-> [s.registered EXCEPT ![provider] = TRUE],
   configs |-> IF IsDefined(options)
               THEN setProviderConfig(s.configs, provider, options[1])
               ELSE s.configs,
   effects |-> Append(s.effects, RegistryRegister(provider))]

\* a register function that stores an empty configuration when it is given
\* no options
registerAlwaysStores(provider, options, s) ==
  IF s.registered[provider]
  THEN [s EXCEPT !.effects = Append(@, ConsoleWarn(provider))]
  ELSE [registered |-> [s.registered EXCEPT ![provider] = TRUE],
        configs |-> setProviderConfig(s.configs, provider,
                                      IF IsDefined(options) THEN options[1] ELSE << >>),
        effects |-> Append(s.effects, RegistryRegister(provider))]

\* the body shared by registerAnthropic, registerOpenRouter and
\* registerAIGateway, on the flag of its module
registerProvider(provider, options, s) ==
  IF s.registered[provider]
  THEN [s EXCEPT !.effects = Append(@, ConsoleWarn(provider))]
  ELSE [registered |-> [s.registered EXCEPT ![provider] = TRUE],
        configs |-> IF IsDefined(options)
                    THEN setProviderConfig(s.configs, provider, options[1])
                    ELSE s.configs,
        effects |-> Append(s.effects, RegistryRegister(provider))]

\* return registered
isRegistered(provider, s) == s.registered[provider]

\* a reset that leaves the stored configuration
resetFlagOnly(provider, s) ==
  [s EXCEPT !.registered[provider] = FALSE]

\* the body shared by _resetAnthropicRegistration, _resetOpenRouterRegistration
\* and _resetAIGatewayRegistration
resetRegistration(provider, s) ==
  [s EXCEPT !.registered[provider] = FALSE,
            !.configs = resetProviderConfig(@, provider)]

\* the entries of the history that are calls made by a caller
CallKinds ==
  {"registerCall", "resetCall", "setProviderConfig", "resetProviderConfig",
   "resetAllConfigs", "setConfig", "resetConfig", "construct", "setEnv"}

\* the calls made so far to the register modules and to config.ts
CallsMade ==
  Cardinality({i \in 1..Len(effects) :
                 effects[i].kind \in CallKinds})

\* a caller calls the register function of a provider
Register(provider) ==
  \E options \in RegisterOptions :
    /\ CallsMade < MaxRegisterCalls
    /\ LET called == [RegisterState EXCEPT
                        !.effects = Append(@, RegisterCall(provider, options))]
           s == registerProvider(provider, options, called)
       IN /\ registered' = s.registered
          /\ configs' = s.configs
          /\ effects' = s.effects
    /\ UNCHANGED <<streamVars, driverVars, requestVars, responseVars,
                   generateVars, callVars, constructVars>>

\* a caller calls the reset function of a provider
Reset(provider) ==
  /\ CallsMade < MaxRegisterCalls
  /\ LET called == [RegisterState EXCEPT
                      !.effects = Append(@, ResetCall(provider))]
         s == resetRegistration(provider, called)
     IN /\ registered' = s.registered
        /\ configs' = s.configs
        /\ effects' = s.effects
  /\ UNCHANGED <<streamVars, driverVars, requestVars, responseVars,
                 generateVars, callVars, constructVars>>

registerAnthropic == Register("anthropic")
registerOpenRouter == Register("openrouter")
registerAIGateway == Register("ai-gateway")
resetAnthropicRegistration == Reset("anthropic")
resetOpenRouterRegistration == Reset("openrouter")
resetAIGatewayRegistration == Reset("ai-gateway")

NextRegister ==
  \/ registerAnthropic
  \/ registerOpenRouter
  \/ registerAIGateway
  \/ resetAnthropicRegistration
  \/ resetOpenRouterRegistration
  \/ resetAIGatewayRegistration

SpecRegister == StreamInit /\ [][NextRegister]_vars

-----------------------------------------------------------------------------
(* The global configuration store of config.ts called directly *)

\* the options objects given to setProviderConfig and setConfig
StoredOptions == {o[1] : o \in RegisterOptions \ {Undefined}}

\* for (const key of Object.keys(configs)) delete configs[key]
resetAllConfigs(store) == [p \in DOMAIN store |-> Undefined]

\* setProviderConfig("ai-gateway", options)
setConfig(store, options) == setProviderConfig(store, "ai-gateway", options)

\* getProviderConfig("ai-gateway") ?? {}
getConfig(store) ==
  LET stored == getProviderConfig(store, "ai-gateway")
  IN IF IsDefined(stored) THEN stored[1] ELSE << >>

\* resetProviderConfig("ai-gateway")
resetConfig(store) == resetProviderConfig(store, "ai-gateway")

\* a call of config.ts in the history
ConfigCall(kind, provider, arg) == [kind |-> kind, provider |-> provider, arg |-> arg]

\* a caller calls a function of config.ts, which leaves the store as given
CallConfig(call, store) ==
  /\ CallsMade < MaxRegisterCalls
  /\ effects' = Append(effects, call)
  /\ configs' = store
  /\ UNCHANGED <<registered, streamVars, driverVars, requestVars, responseVars,
                 generateVars, callVars, constructVars>>

SetProviderConfig ==
  \E p \in Providers, options \in StoredOptions :
    CallConfig(ConfigCall("setProviderConfig", p, Some(options)),
               setProviderConfig(configs, p, options))

ResetProviderConfig ==
  \E p \in Providers :
    CallConfig(ConfigCall("resetProviderConfig", p, Undefined),
               resetProviderConfig(configs, p))

ResetAllConfigs ==
  CallConfig(ConfigCall("resetAllConfigs", "", Undefined), resetAllConfigs(configs))

SetConfig ==
  \E options \in StoredOptions :
    CallConfig(ConfigCall("setConfig", "ai-gateway", Some(options)),
               setConfig(configs, options))

ResetConfig ==
  CallConfig(ConfigCall("resetConfig", "ai-gateway", Undefined), resetConfig(configs))

NextConfig ==
  \/ SetProviderConfig
  \/ ResetProviderConfig
  \/ ResetAllConfigs
  \/ SetConfig
  \/ ResetConfig

SpecConfig == StreamInit /\ [][NextConfig]_vars

\* the register modules together with direct calls of setProviderConfig
NextRegisterConfig ==
  \/ NextRegister
  \/ SetProviderConfig

SpecRegisterConfig == StreamInit /\ [][NextRegisterConfig]_vars

-----------------------------------------------------------------------------
(* Construction of the LLM instances: each constructor resolves its settings  *)
(* from its config argument, the global configuration store and process.env   *)

\* the instances constructed in one run
MaxInstances == 1

DEFAULT_ANTHROPIC_MAX_TOKENS == 4096
DEFAULT_BASE_URL == "https://ai-gateway.vercel.sh/v1"
OPENROUTER_BASE_URL == "https://openrouter.ai/api/v1"

\* obj[key]: the value of a property of an object, undefined when it has none
Prop(obj, key) ==
  LET hits == SelectSeq(obj, LAMBDA e : e.key = key)
  IN IF hits = << >> THEN Undefined ELSE Some(hits[1].value)

\* a ?? b
Coalesce(a, b) == IF IsDefined(a) THEN a ELSE b

\* getProviderConfig(provider) ?? {}
GlobalConfig(store, provider) ==
  Coalesce(getProviderConfig(store, provider), Some(<< >>))[1]

\* the headers built from siteUrl and appName, undefined when there is none
DefaultHeaders(siteUrl, appName) ==
  LET headers ==
        (IF IsDefined(siteUrl) /\ siteUrl[1] # ""
         THEN <<Entry("HTTP-Referer", siteUrl[1])>> ELSE << >>)
        \o (IF IsDefined(appName) /\ appName[1] # ""
            THEN <<Entry("X-Title", appName[1])>> ELSE << >>)
  IN IF Len(headers) > 0 THEN Some(headers) ELSE Undefined

\* an LLM instance: the config it was given, what its SDK client was built
\* with (apiKey, baseURL, defaultHeaders; undefined when not passed to the
\* client) and the values its constructor resolved on the way
Instance(class, cfg, apiKey, baseURL, maxTokens, siteUrl, appName) ==
  [class |-> class, config |-> cfg, apiKey |-> apiKey, baseURL |-> baseURL,
   maxTokens |-> maxTokens, siteUrl |-> siteUrl, appName |-> appName,
   defaultHeaders |-> DefaultHeaders(siteUrl, appName)]

\* new AnthropicLlm(config): the client is built from apiKey, timeout and
\* maxRetries only
AnthropicLlm(cfg, store, environment) ==
  LET globalConfig == GlobalConfig(store, "anthropic")
      apiKey == Coalesce(Prop(cfg, "apiKey"),
                  Coalesce(Prop(globalConfig, "apiKey"),
                    Coalesce(environment["ANTHROPIC_API_KEY"], Some(""))))
      maxTokens == Coalesce(Prop(cfg, "maxTokens"),
                     Coalesce(Prop(globalConfig, "maxTokens"),
                       Some(DEFAULT_ANTHROPIC_MAX_TOKENS)))
  IN Instance("AnthropicLlm", cfg, apiKey, Undefined, maxTokens,
              Undefined, Undefined)

\* new AIGatewayLlm(config)
AIGatewayLlm(cfg, store, environment) ==
  LET globalConfig == GlobalConfig(store, "ai-gateway")
      baseURL == Coalesce(Prop(cfg, "baseURL"),
                   Coalesce(Prop(globalConfig, "baseURL"),
                     Coalesce(environment["AI_GATEWAY_URL"],
                       Coalesce(environment["OPENAI_BASE_URL"],
                         Some(DEFAULT_BASE_URL)))))
      apiKey == Coalesce(Prop(cfg, "apiKey"),
                  Coalesce(Prop(globalConfig, "apiKey"),
                    Coalesce(environment["AI_GATEWAY_API_KEY"],
                      Coalesce(environment["OPENAI_API_KEY"], Some("")))))
  IN Instance("AIGatewayLlm", cfg, apiKey, baseURL, Undefined,
              Undefined, Undefined)

\* new OpenRouterLlm(config)
OpenRouterLlm(cfg, store, environment) ==
  LET globalConfig == GlobalConfig(store, "openrouter")
      baseURL == Coalesce(Prop(cfg, "baseURL"),
                   Coalesce(Prop(globalConfig, "baseURL"),
                     Some(OPENROUTER_BASE_URL)))
      apiKey == Coalesce(Prop(cfg, "apiKey"),
                  Coalesce(Prop(globalConfig, "apiKey"),
                    Coalesce(environment["OPENROUTER_API_KEY"], Some(""))))
      siteUrl == Coalesce(Prop(cfg, "siteUrl"),
                   Coalesce(Prop(globalConfig, "siteUrl"),
                     environment["OPENROUTER_SITE_URL"]))
      appName == Coalesce(Prop(cfg, "appName"),
                   Coalesce(Prop(globalConfig, "appName"),
                     environment["OPENROUTER_APP_NAME"]))
  IN Instance("OpenRouterLlm", cfg, apiKey, baseURL, Undefined,
              siteUrl, appName)

\* the constructor of the class of a provider
Construct(provider, cfg, store, environment) ==
  CASE provider = "anthropic" -> AnthropicLlm(cfg, store, environment)
    [] provider = "ai-gateway" -> AIGatewayLlm(cfg, store, environment)
    [] provider = "openrouter" -> OpenRouterLlm(cfg, store, environment)

\* the settings in the order the objects below list them
SettingKeys == <<"apiKey", "baseURL", "maxTokens", "siteUrl", "appName">>

\* the properties the config type of a provider's class declares
\* (BaseProviderConfig gives apiKey and baseURL to every class)
ConfigKeys(provider) ==
  CASE provider = "anthropic" -> {"apiKey", "baseURL", "maxTokens"}
    [] provider = "ai-gateway" -> {"apiKey", "baseURL"}
    [] provider = "openrouter" -> {"apiKey", "baseURL", "siteUrl", "appName"}

\* the properties the register options type of a provider declares
GlobalKeys(provider) ==
  CASE provider = "anthropic" -> {"apiKey", "maxTokens"}
    [] provider = "ai-gateway" -> {"apiKey", "baseURL"}
    [] provider = "openrouter" -> {"apiKey", "baseURL", "siteUrl", "appName"}

\* the environment variables the class of a provider reads
EnvVarsOf(provider) ==
  CASE provider = "anthropic" -> {"ANTHROPIC_API_KEY"}
    [] provider = "ai-gateway" ->
         {"AI_GATEWAY_URL", "OPENAI_BASE_URL", "AI_GATEWAY_API_KEY", "OPENAI_API_KEY"}
    [] provider = "openrouter" ->
         {"OPENROUTER_API_KEY", "OPENROUTER_SITE_URL", "OPENROUTER_APP_NAME"}

\* the value a level gives to a setting: a string naming the level, or a number
\* for maxTokens
LevelValue(key, text, number) == IF key = "maxTokens" THEN number ELSE text

\* the object with the given properties, each with the value of the level
ObjectWith(keys, text, number) ==
  LET chosen == SelectSeq(SettingKeys, LAMBDA k : k \in keys)
  IN [i \in 1..Len(chosen) |-> Entry(chosen[i], LevelValue(chosen[i], text, number))]

\* the config arguments given to the constructor of a provider's class
InstanceConfigs(provider) ==
  {ObjectWith(keys, "from-instance", 1024) : keys \in SUBSET ConfigKeys(provider)}

\* the global configurations stored for a provider, or none
GlobalConfigs(provider) ==
  {Undefined} \cup
  {Some(ObjectWith(keys, "from-global", 2048)) : keys \in SUBSET GlobalKeys(provider)}

\* the states of process.env in which only variables of a provider are set
Environments(provider) ==
  {[v \in EnvVars |-> IF v \in set THEN Some("from-env-" \o v) ELSE Undefined] :
     set \in SUBSET EnvVarsOf(provider)}

\* a store and an environment set up for one provider, nothing constructed yet
ConstructInit ==
  /\ FreshStream
  /\ NoRequest
  /\ NoMessage
  /\ NoGenerate
  /\ NoCalls
  /\ \E p \in Providers :
       /\ configs \in {[q \in Providers |-> IF q = p THEN g ELSE Undefined] :
                         g \in GlobalConfigs(p)}
       /\ env \in Environments(p)
  /\ registered = [p \in Providers |-> FALSE]
  /\ effects = << >>
  /\ instances = << >>

\* new AnthropicLlm(config), new AIGatewayLlm(config) or new OpenRouterLlm(config)
NewInstance ==
  \E p \in Providers :
    \E cfg \in InstanceConfigs(p) :
      /\ Len(instances) < MaxInstances
      /\ instances' = Append(instances, Construct(p, cfg, configs, env))
      /\ UNCHANGED <<env, streamVars, driverVars, requestVars, responseVars,
                     generateVars, callVars, registerVars>>

NextConstruct == NewInstance

SpecConstruct == ConstructInit /\ [][NextConstruct]_vars

-----------------------------------------------------------------------------
(* Instances in use while the store and the environment change *)

\* the provider whose class an instance is of
ProviderOf(inst) ==
  CASE inst.class = "AnthropicLlm" -> "anthropic"
    [] inst.class = "AIGatewayLlm" -> "ai-gateway"
    [] inst.class = "OpenRouterLlm" -> "openrouter"

\* a use of the instance reads the store and the environment again
SettingsReadAtUse(inst, store, environment) ==
  LET now == Construct(ProviderOf(inst), inst.config, store, environment)
  IN [apiKey |-> now.apiKey, baseURL |-> now.baseURL, maxTokens |-> now.maxTokens,
      headers |-> now.defaultHeaders]

\* what a request made on an instance works with: this.client, built in the
\* constructor, and this.maxTokens
SettingsInUse(inst, store, environment) ==
  [apiKey |-> inst.apiKey, baseURL |-> inst.baseURL, maxTokens |-> inst.maxTokens,
   headers |-> inst.defaultHeaders]

\* an instance is constructed from a config that names the model only
NewInstanceOnDefaults ==
  \E p \in Providers :
    /\ CallsMade < MaxRegisterCalls
    /\ effects' = Append(effects, ConfigCall("construct", p, Some(<< >>)))
    /\ instances' = Append(instances, Construct(p, << >>, configs, env))
    /\ UNCHANGED <<registered, configs, env, streamVars, driverVars, requestVars,
                   responseVars, generateVars, callVars>>

\* setProviderConfig is called for a provider with every property its register
\* options declare
SetFullProviderConfig ==
  \E p \in Providers :
    /\ CallsMade < MaxRegisterCalls
    /\ effects' = Append(effects, ConfigCall("setProviderConfig", p,
                                    Some(ObjectWith(GlobalKeys(p), "from-global", 2048))))
    /\ configs' = setProviderConfig(configs, p,
                                    ObjectWith(GlobalKeys(p), "from-global", 2048))
    /\ UNCHANGED <<registered, constructVars, streamVars, driverVars, requestVars,
                   responseVars, generateVars, callVars>>

\* process.env[v] = value
SetEnv ==
  \E v \in EnvVars :
    /\ CallsMade < MaxRegisterCalls
    /\ effects' = Append(effects, ConfigCall("setEnv", "", Some(v)))
    /\ env' = [env EXCEPT ![v] = Some("from-env-" \o v)]
    /\ UNCHANGED <<registered, configs, instances, streamVars, driverVars,
                   requestVars, responseVars, generateVars, callVars>>

NextSettings ==
  \/ NewInstanceOnDefaults
  \/ SetFullProviderConfig
  \/ ResetProviderConfig
  \/ SetEnv
  \/ registerAnthropic
  \/ resetAnthropicRegistration

SpecSettings == StreamInit /\ [][NextSettings]_vars

-----------------------------------------------------------------------------
(* Properties of the stream accumulator and event converter *)

\* the latest call handled a message_stop
AfterStop == lastEvent.type = "message_stop"

\* the parts of the response of the latest result
ResultParts ==
  IF IsDefined(lastResult.response) /\ IsDefined(lastResult.response[1].content)
  THEN lastResult.response[1].content[1].parts
  ELSE << >>

TextPartsOf(parts) == SelectSeq(parts, IsTextPart)
FunctionCallPartsOf(parts) == SelectSeq(parts, IsFunctionCallPart)

\* the indices holding a registered tool_use with a non-empty name
NamedRegs == {i \in Indices : IsDefined(regs[i]) /\ regs[i][1].name # ""}

\* C1: on message_stop the terminal response's text part is the in-order
\* concatenation of the texts of the text_delta events of the stream (which is
\* also the concatenation of the texts of the partial responses emitted); it
\* is the first part and the only text part, and there is no text part when
\* that concatenation is empty.
C1_TerminalTextIsConcatenation ==
  AfterStop =>
    /\ ~lastThrew
    /\ lastResult.isComplete
    /\ IsDefined(lastResult.response)
    /\ Concat(partials) = Concat(deltas)
    /\ IF Concat(deltas) = << >>
       THEN TextPartsOf(ResultParts) = << >>
       ELSE /\ Len(ResultParts) >= 1
            /\ IsTextPart(ResultParts[1])
            /\ ResultParts[1].text = Concat(deltas)
            /\ Len(TextPartsOf(ResultParts)) = 1

\* C1 happens: two different non-empty deltas, then message_stop
C1_Witness ==
  /\ AfterStop
  /\ deltas = <<<<"a">>, <<"b">>>>
  /\ Len(ResultParts) >= 1
  /\ IsTextPart(ResultParts[1])
  /\ ResultParts[1].text = <<"a", "b">>

\* C2: right after a message_stop the accumulator is in the state
\* createAnthropicStreamAccumulator() returns, whatever preceded.
C2_ResetAfterStop ==
  AfterStop => (~lastThrew /\ acc = createAnthropicStreamAccumulator)

\* C2 happens: the stream had accumulated text, a tool use and both token
\* counts (they show in the terminal response) and the accumulator is fresh
C2_Witness ==
  /\ AfterStop
  /\ acc = createAnthropicStreamAccumulator
  /\ Len(ResultParts) = 2
  /\ IsTextPart(ResultParts[1])
  /\ IsFunctionCallPart(ResultParts[2])
  /\ lastResult.response[1].usageMetadata = Some(UsageMetadata(2, 1))

\* C4: on message_stop, for every block index whose registered tool_use (the
\* one content_block_start registered last) has a non-empty name, the terminal
\* response holds a function-call part with that id and name whose args is
\* the JSON value of the in-order concatenation of the input_json_delta
\* fragments received for that index since; there is one such part per index
\* and no part for an entry with an empty name.
C4_ToolUseArgsFromOwnFragments ==
  AfterStop =>
    /\ \A i \in NamedRegs :
         LET input == Concat(regs[i][1].frags)
         IN \E j \in 1..Len(ResultParts) :
              /\ IsFunctionCallPart(ResultParts[j])
              /\ ResultParts[j].functionCall.id = regs[i][1].id
              /\ ResultParts[j].functionCall.name = regs[i][1].name
              /\ JsonParse(input).ok =>
                   ResultParts[j].functionCall.args = JsonParse(input).val
    /\ Len(FunctionCallPartsOf(ResultParts)) = Cardinality(NamedRegs)
    /\ \A j \in 1..Len(ResultParts) :
         IsFunctionCallPart(ResultParts[j]) => ResultParts[j].functionCall.name # ""

\* C4 happens: two named tool uses, the fragments of index 0 arriving around
\* one of index 1, and the part of index 0 carrying the parsed object
C4_Witness ==
  /\ AfterStop
  /\ NamedRegs = {0, 1}
  /\ regs[0][1].frags = <<<<"{">>, <<"k", ":", "1", "}">>>>
  /\ regs[1][1].frags = <<<<"1">>>>
  /\ deltas # << >>
  /\ \E j \in 1..Len(ResultParts) :
       /\ IsFunctionCallPart(ResultParts[j])
       /\ ResultParts[j].functionCall.id = regs[0][1].id
       /\ ResultParts[j].functionCall.args
            = JsonValue("object", 0, <<JsonValue("number", 1, << >>)>>)

\* C5: on message_stop nothing is thrown, and every named tool use whose
\* accumulated input is not valid JSON (the empty string included) still has
\* its function-call part, with args {}; the other parts are as without it:
\* the text part is there exactly when text was received and there is one
\* function-call part per named tool use.
C5_MalformedArgsFallBack ==
  AfterStop =>
    /\ ~lastThrew
    /\ lastResult.isComplete
    /\ \A i \in NamedRegs :
         ~JsonParse(Concat(regs[i][1].frags)).ok =>
           FunctionCallPart(regs[i][1].id, regs[i][1].name, EmptyObject)
             \in {ResultParts[j] : j \in 1..Len(ResultParts)}
    /\ Len(FunctionCallPartsOf(ResultParts)) = Cardinality(NamedRegs)
    /\ Len(TextPartsOf(ResultParts)) = (IF Concat(deltas) = << >> THEN 0 ELSE 1)

\* C5 happens: one tool use with malformed input next to one with valid input
\* and a text part
C5_Witness ==
  /\ AfterStop
  /\ NamedRegs = {0, 1}
  /\ regs[0][1].frags = <<<<"{">>, <<"1">>>>
  /\ regs[1][1].frags = <<<<"1">>>>
  /\ Len(ResultParts) = 3
  /\ FunctionCallPart(regs[0][1].id, regs[0][1].name, EmptyObject)
       \in {ResultParts[j] : j \in 1..Len(ResultParts)}

\* C6: the terminal response of a message_stop has usage metadata exactly when
\* the accumulator held inputTokens or outputTokens before the call; then
\* promptTokenCount is inputTokens (0 if unset), candidatesTokenCount is
\* outputTokens (0 if unset) and totalTokenCount their sum.
C6_UsageIffCaptured ==
  [][lastEvent'.type = "message_stop" =>
       LET usage == lastResult'.response[1].usageMetadata
           p == IF IsDefined(acc.inputTokens) THEN acc.inputTokens[1] ELSE 0
           c == IF IsDefined(acc.outputTokens) THEN acc.outputTokens[1] ELSE 0
       IN IF IsDefined(acc.inputTokens) \/ IsDefined(acc.outputTokens)
          THEN /\ IsDefined(usage)
               /\ usage[1].promptTokenCount = p
               /\ usage[1].candidatesTokenCount = c
               /\ usage[1].totalTokenCount = p + c
          ELSE usage = Undefined]_vars

\* C6 happens: only inputTokens was captured, the other count reads 0
C6_Witness ==
  /\ AfterStop
  /\ lastResult.response[1].usageMetadata
       = Some([promptTokenCount |-> 2, candidatesTokenCount |-> 0,
               totalTokenCount |-> 2])

\* C7: after a message_start carrying input_tokens = n the accumulator's
\* inputTokens is n, after a message_delta carrying output_tokens = m its
\* outputTokens is m, for every n, m >= 0; neither emits a response.
C7_TokensCaptured ==
  /\ (lastEvent.type = "message_start" /\ IsDefined(lastEvent.tokens)) =>
       (acc.inputTokens = lastEvent.tokens /\ lastResult = NoResponse)
  /\ (lastEvent.type = "message_delta" /\ IsDefined(lastEvent.tokens)) =>
       (acc.outputTokens = lastEvent.tokens /\ lastResult = NoResponse)

\* C8: a text_delta returns one partial response holding just that delta's
\* text (model role, partial = true, no turnComplete) and isComplete = false;
\* every other event but message_stop returns no response and isComplete =
\* false; so the stream has as many partial responses as text deltas.
C8_OnePartialPerTextDelta ==
  /\ ~AfterStop =>
       /\ ~lastThrew
       /\ IF lastEvent.type = "content_block_delta" /\ lastEvent.kind = "text_delta"
          THEN lastResult =
                 StreamResult(
                   Some([content |-> Some([role |-> "model",
                                           parts |-> <<[text |-> lastEvent.str]>>]),
                         partial |-> Some(TRUE), turnComplete |-> Undefined,
                         usageMetadata |-> Undefined]),
                   FALSE)
          ELSE lastResult = StreamResult(Undefined, FALSE)
  /\ Len(partials) = Len(deltas)
  /\ partials = deltas

\* C8 happens: an empty and a non-empty text delta each emitted a partial
C8_Witness ==
  /\ lastEvent.type = "content_block_delta"
  /\ lastEvent.kind = "text_delta"
  /\ lastEvent.str = << >>
  /\ deltas = <<<<"a">>, << >>>>
  /\ partials = deltas
  /\ IsDefined(lastResult.response)

-----------------------------------------------------------------------------
(* Properties of the streaming loop *)

\* the streaming call is over
StreamDone == pc \in {"broke", "exhausted"}

\* C3 as stated: when the call is over, exactly one result has isComplete =
\* true and it is the last one.
C3_ExactlyOneComplete ==
  StreamDone =>
    /\ Len(results) >= 1
    /\ results[Len(results)].isComplete
    /\ \A j \in 1..(Len(results) - 1) : ~results[j].isComplete

\* C3 amended: at most one result has isComplete = true and it is the last
\* one, the loop ending with it; the last result is complete exactly when its
\* event is message_stop, so a stream that ends without message_stop gives no
\* complete result.
C3_AtMostOneCompleteAndLast ==
  /\ \A j \in 1..Len(results) :
       results[j].isComplete => (j = Len(results) /\ pc = "broke")
  /\ Len(results) >= 1 =>
       (results[Len(results)].isComplete <=> lastEvent.type = "message_stop")
  /\ pc = "broke" => (Len(results) >= 1 /\ results[Len(results)].isComplete)
  /\ pc = "exhausted" => \A j \in 1..Len(results) : ~results[j].isComplete

\* C3 happens: a stream of several events ending with message_stop, the only
\* complete result being the last
C3_Witness ==
  /\ pc = "broke"
  /\ Len(results) = 4
  /\ results[4].isComplete
  /\ IsDefined(results[2].response)
  /\ Len(yielded) >= 2

-----------------------------------------------------------------------------
(* Properties of the request converter *)

\* a part that gives at least one block: a non-empty text, a function call or
\* a function response
ProduciblePart(part) ==
  \/ (IsDefined(part.text) /\ part.text[1] # << >>)
  \/ IsDefined(part.functionCall)
  \/ IsDefined(part.functionResponse)

ProducibleTurn(turn) == \E j \in 1..Len(turn.parts) : ProduciblePart(turn.parts[j])

\* the turns of the request that give a message, in order
KeptTurns == SelectSeq(request, ProducibleTurn)

\* the block type a producible part of the request parts gives
BlockTypeOf(part) ==
  IF IsDefined(part.text) /\ part.text[1] # << >> THEN "text"
  ELSE IF IsDefined(part.functionCall) THEN "tool_use"
  ELSE "tool_result"

\* the messages returned, without the placeholder if it was prepended
ProducedMessages ==
  LET msgs == output[1].messages
  IN IF Len(msgs) > 0 /\ msgs[1] = PlaceholderMessage THEN Tail(msgs) ELSE msgs

\* C9: the message list returned is empty or begins with a user message; the
\* placeholder is prepended exactly when the first message produced from the
\* turns has role assistant, and the produced messages follow it unchanged
\* and in order.
C9_FirstMessageIsUser ==
  IsDefined(output) =>
    LET msgs == output[1].messages
        produced == ProcessContents(request, 0, 0).messages
    IN /\ (msgs = << >> \/ msgs[1].role = "user")
       /\ IF KeptTurns # << >> /\ KeptTurns[1].role = "model"
          THEN /\ msgs[1] = PlaceholderMessage
               /\ Len(msgs) = Len(KeptTurns) + 1
               /\ msgs[2].role = "assistant"
               /\ Tail(msgs) = produced
          ELSE /\ msgs = produced
               /\ Len(msgs) = Len(KeptTurns)
               /\ \A j \in 1..Len(msgs) : msgs[j] # PlaceholderMessage

\* C9 happens: the first turn gives no message, the second is a model turn,
\* and the placeholder comes before its message
C9_Witness ==
  /\ IsDefined(output)
  /\ Len(request) = 2
  /\ ~ProducibleTurn(request[1])
  /\ request[1].role = "user"
  /\ request[2].role = "model"
  /\ Len(output[1].messages) = 2
  /\ output[1].messages[1] = PlaceholderMessage
  /\ output[1].messages[2].role = "assistant"

\* C10: the turns giving at least one block map to the messages one-to-one
\* and in order, the others are dropped; a message's role is assistant for a
\* model turn and user otherwise, its blocks follow the turn's parts in
\* order, and no message has an empty content array.
C10_TurnsToMessages ==
  IsDefined(output) =>
    /\ Len(ProducedMessages) = Len(KeptTurns)
    /\ \A j \in 1..Len(ProducedMessages) :
         LET msg == ProducedMessages[j]
             parts == SelectSeq(KeptTurns[j].parts, ProduciblePart)
         IN /\ msg.role = (IF KeptTurns[j].role = "model" THEN "assistant"
                           ELSE "user")
            /\ Len(msg.content.blocks) > 0
            /\ Len(msg.content.blocks) = Len(parts)
            /\ \A b \in 1..Len(parts) :
                 msg.content.blocks[b].type = BlockTypeOf(parts[b])

\* C10 happens: a turn without blocks is dropped between two kept ones, and a
\* kept turn of another role than model holds two blocks in part order
C10_Witness ==
  /\ IsDefined(output)
  /\ Len(request) = 2
  /\ ~ProducibleTurn(request[1])
  /\ request[2].role = "function"
  /\ Len(output[1].messages) = 1
  /\ output[1].messages[1].role = "user"
  /\ Len(output[1].messages[1].content.blocks) = 2
  /\ output[1].messages[1].content.blocks[1].type = "tool_result"
  /\ output[1].messages[1].content.blocks[2].type = "text"

\* the texts of the parts that have a non-empty text, in order
NonEmptyTexts(parts) ==
  LET HasText(p) == IsDefined(p.text) /\ p.text[1] # << >>
      kept == SelectSeq(parts, HasText)
  IN [j \in 1..Len(kept) |-> kept[j].text[1]]

RECURSIVE JoinLines(_)
\* lines joined with a newline between two neighbours
JoinLines(lines) ==
  IF Len(lines) = 0 THEN << >>
  ELSE IF Len(lines) = 1 THEN lines[1]
  ELSE JoinLines(SubSeq(lines, 1, Len(lines) - 1)) \o <<"\n">> \o lines[Len(lines)]

\* the system instruction of the request converted
SystemInstruction == config.systemInstruction

\* the messages of the same request with the system instruction removed
MessagesWithoutSystem ==
  convertAnthropicRequest(LlmRequest(request, Config(Undefined, config.tools))).messages

\* C11 as stated: a string instruction X gives system = X, a turn-shaped one
\* gives its text parts joined with a newline, and the messages are those of
\* the request without the instruction.
C11_SystemIsInstruction ==
  IsDefined(output) =>
    /\ (IsDefined(SystemInstruction) /\ SystemInstruction[1].kind = "string") =>
         output[1].system = Some(SystemInstruction[1].str)
    /\ (IsDefined(SystemInstruction) /\ SystemInstruction[1].kind = "content"
          /\ IsDefined(SystemInstruction[1].parts)) =>
         output[1].system = Some(JoinLines(NonEmptyTexts(SystemInstruction[1].parts[1])))
    /\ output[1].messages = MessagesWithoutSystem

\* C11 amended: a non-empty string instruction X gives system = X; a
\* turn-shaped one gives its non-empty text parts joined with a newline when
\* there is one; an empty string, a turn-shaped instruction without a
\* non-empty text part, an instruction of another shape and no instruction
\* give system = undefined; the messages are those of the request without
\* the instruction.
C11_SystemIsNonEmptyInstruction ==
  IsDefined(output) =>
    LET sys == SystemInstruction
        lines == IF IsDefined(sys) /\ sys[1].kind = "content" /\ IsDefined(sys[1].parts)
                 THEN NonEmptyTexts(sys[1].parts[1]) ELSE << >>
    IN /\ output[1].system =
            (IF IsDefined(sys) /\ sys[1].kind = "string" /\ sys[1].str # << >>
             THEN Some(sys[1].str)
             ELSE IF lines # << >> THEN Some(JoinLines(lines))
             ELSE Undefined)
       /\ output[1].messages = MessagesWithoutSystem

\* C11 happens: a turn-shaped instruction with the parts A, an empty text and
\* B gives "A\nB", and the one message is the turn's, after the placeholder
C11_Witness ==
  /\ IsDefined(output)
  /\ SystemInstruction
       = Some(ContentInstruction(Some(<<Part(Some(<<"A">>), Undefined, Undefined),
                                        Part(Some(<<"B">>), Undefined, Undefined)>>)))
  /\ output[1].system = Some(<<"A", "\n", "B">>)
  /\ Len(output[1].messages) = 2
  /\ output[1].messages[1] = PlaceholderMessage

\* the parts of the request in turn order
RECURSIVE AllParts(_)
AllParts(contents) ==
  IF contents = << >> THEN << >>
  ELSE Head(contents).parts \o AllParts(Tail(contents))

\* the blocks of the messages returned, in order
RECURSIVE AllBlocks(_)
AllBlocks(msgs) ==
  IF msgs = << >> THEN << >>
  ELSE Head(msgs).content.blocks \o AllBlocks(Tail(msgs))

HasFunctionCall(part) == IsDefined(part.functionCall)
HasFunctionResponse(part) == IsDefined(part.functionResponse)
IsToolUse(block) == block.type = "tool_use"
IsToolResult(block) == block.type = "tool_result"

\* the function-call and function-response parts of the request, and the
\* tool_use and tool_result blocks returned, each in conversation order
CallParts == SelectSeq(AllParts(request), HasFunctionCall)
ResponseParts == SelectSeq(AllParts(request), HasFunctionResponse)
ToolUseBlocks == SelectSeq(AllBlocks(ProducedMessages), IsToolUse)
ToolResultBlocks == SelectSeq(AllBlocks(ProducedMessages), IsToolResult)

\* the ids randomUUID() can return
GeneratedIds == {UuidSupply[k] : k \in 1..Len(UuidSupply)}

\* C12: the k-th function call with identifier X gives the k-th tool_use
\* block, with id X, the same name and the args as input; the k-th function
\* response with identifier X gives the k-th tool_result block, with
\* tool_use_id X; so a call and a response holding the same identifier give
\* blocks holding the same identifier, wherever they are.
C12_IdsPreserved ==
  IsDefined(output) =>
    /\ Len(ToolUseBlocks) = Len(CallParts)
    /\ Len(ToolResultBlocks) = Len(ResponseParts)
    /\ \A k \in 1..Len(CallParts) :
         LET fc == CallParts[k].functionCall[1]
         IN IsDefined(fc.id) =>
              /\ ToolUseBlocks[k].id = fc.id[1]
              /\ ToolUseBlocks[k].name = fc.name[1]
              /\ ToolUseBlocks[k].input = fc.args[1]
    /\ \A k \in 1..Len(ResponseParts) :
         LET fr == ResponseParts[k].functionResponse[1]
         IN IsDefined(fr.id) => ToolResultBlocks[k].tool_use_id = fr.id[1]
    /\ \A k \in 1..Len(CallParts), l \in 1..Len(ResponseParts) :
         (/\ IsDefined(CallParts[k].functionCall[1].id)
          /\ CallParts[k].functionCall[1].id = ResponseParts[l].functionResponse[1].id)
         => ToolUseBlocks[k].id = ToolResultBlocks[l].tool_use_id

\* C12 happens: the response comes in the turn before the model turn of its
\* call, and both blocks hold call_1
C12_Witness ==
  /\ IsDefined(output)
  /\ Len(request) = 2
  /\ request[2].role = "model"
  /\ Len(CallParts) = 1
  /\ Len(ResponseParts) = 1
  /\ ResponseParts[1].functionResponse[1].id = Some("call_1")
  /\ Len(output[1].messages) = 2
  /\ output[1].messages[1].content.blocks[1].type = "tool_result"
  /\ output[1].messages[1].content.blocks[1].tool_use_id = "call_1"
  /\ output[1].messages[2].content.blocks[1].type = "tool_use"
  /\ output[1].messages[2].content.blocks[1].id = "call_1"

\* C13: every function response gives a tool_result whose tool_use_id is a
\* generated identifier if the missing-id warning was emitted for it and the
\* part's own identifier if not: the warnings emitted are as many as the
\* tool_result blocks holding a generated identifier, and every other
\* tool_result block holds the identifier of its part.
C13_WarningIffGenerated ==
  IsDefined(output) =>
    /\ Len(ToolResultBlocks) = Len(ResponseParts)
    /\ output[1].warned
         = Cardinality({k \in 1..Len(ToolResultBlocks) :
                          ToolResultBlocks[k].tool_use_id \in GeneratedIds})
    /\ \A k \in 1..Len(ResponseParts) :
         ToolResultBlocks[k].tool_use_id \notin GeneratedIds =>
           ResponseParts[k].functionResponse[1].id
             = Some(ToolResultBlocks[k].tool_use_id)

\* the function declarations of the request, in group order then
\* declaration order
RECURSIVE AllDeclarations(_)
AllDeclarations(groups) ==
  IF groups = << >> THEN << >>
  ELSE (IF IsDefined(Head(groups).functionDeclarations)
        THEN Head(groups).functionDeclarations[1] ELSE << >>)
       \o AllDeclarations(Tail(groups))

HasName(fn) == IsDefined(fn.name) /\ fn.name[1] # ""

\* the declarations that have a name, in order
NamedDeclarations ==
  SelectSeq(AllDeclarations(IF IsDefined(config.tools) THEN config.tools[1] ELSE << >>),
            HasName)

HasUpperCase(str) ==
  \E i \in 1..Len(str), k \in 1..Len(UpperCase) : str[i] = UpperCase[k]

RECURSIVE NoUpperCaseType(_)
\* no "type" key with a string value, at any depth, holds an uppercase letter
NoUpperCaseType(v) ==
  IF v.kind = "object"
  THEN \A i \in 1..Len(v.entries) :
         /\ (v.entries[i].key = "type" /\ v.entries[i].value.kind = "string")
              => ~HasUpperCase(v.entries[i].value.str)
         /\ NoUpperCaseType(v.entries[i].value)
  ELSE IF v.kind = "array"
  THEN \A i \in 1..Len(v.items) : NoUpperCaseType(v.items[i])
  ELSE TRUE

RECURSIVE TypesLowered(_)
\* the value with the string under every "type" key, at any depth, put in
\* lowercase and everything else as it is
TypesLowered(v) ==
  IF v.kind = "object"
  THEN SObject([i \in 1..Len(v.entries) |->
         IF v.entries[i].key = "type" /\ v.entries[i].value.kind = "string"
         THEN Entry("type", SString(toLowerCase(v.entries[i].value.str)))
         ELSE Entry(v.entries[i].key, TypesLowered(v.entries[i].value))])
  ELSE IF v.kind = "array"
  THEN SArray([i \in 1..Len(v.items) |-> TypesLowered(v.items[i])])
  ELSE v

\* C14: in every tool emitted, no "type" key with a string value keeps an
\* uppercase letter at any depth of the schema, and the schema is the
\* declaration's parameters with nothing else changed.
C14_TypesLoweredAtAnyDepth ==
  (IsDefined(output) /\ IsDefined(output[1].tools)) =>
    \A k \in 1..Len(output[1].tools[1]) :
      LET schema == output[1].tools[1][k].input_schema
          parameters == NamedDeclarations[k].parameters
      IN /\ NoUpperCaseType(schema)
         /\ parameters.kind = "object" => schema = TypesLowered(parameters)

-----------------------------------------------------------------------------
(* Properties of the response converter *)

IsTextOrToolUse(block) == block.type \in {"text", "tool_use"}

\* the blocks of the message that give a part, in order
PartBlocksOfMessage == SelectSeq(message[1].content, IsTextOrToolUse)

\* C16: the parts of the response follow the text and tool_use blocks of the
\* message in order, a text block giving a text part and a tool_use block a
\* function-call part with its id, name and input; blocks of other types
\* give nothing; turnComplete is true; the usage metadata holds input_tokens,
\* output_tokens and their sum; content is undefined exactly when there is
\* no part.
C16_ResponseFollowsBlocks ==
  IsDefined(llmResponse) =>
    LET kept == PartBlocksOfMessage
        r == llmResponse[1]
    IN /\ r.turnComplete = Some(TRUE)
       /\ r.content = Undefined <=> kept = << >>
       /\ IsDefined(r.content) =>
            /\ r.content[1].role = "model"
            /\ Len(r.content[1].parts) = Len(kept)
            /\ \A k \in 1..Len(kept) :
                 r.content[1].parts[k]
                   = (IF kept[k].type = "text" THEN [text |-> kept[k].text]
                      ELSE [functionCall |->
                              [id |-> kept[k].id, name |-> kept[k].name,
                               args |-> kept[k].input]])
       /\ IsDefined(message[1].usage) =>
            /\ IsDefined(r.usageMetadata)
            /\ r.usageMetadata[1].promptTokenCount = message[1].usage[1].input_tokens
            /\ r.usageMetadata[1].candidatesTokenCount
                 = message[1].usage[1].output_tokens
            /\ r.usageMetadata[1].totalTokenCount
                 = message[1].usage[1].input_tokens + message[1].usage[1].output_tokens

\* C16 happens: a thinking block before a tool_use block gives the one
\* function-call part, with the counts 2, 1 and 3
C16_Witness ==
  /\ IsDefined(llmResponse)
  /\ Len(message[1].content) = 2
  /\ message[1].content[1] = ThinkingBlock
  /\ message[1].content[2].type = "tool_use"
  /\ Len(llmResponse[1].content[1].parts) = 1
  /\ llmResponse[1].content[1].parts[1].functionCall.id = "call_1"
  /\ llmResponse[1].usageMetadata = Some(UsageMetadata(2, 1))

-----------------------------------------------------------------------------
(* Properties of generateContentAsync *)

\* a response carrying an error: errorCode and errorMessage set, turnComplete
\* true, no content
IsErrorResponse(r) ==
  /\ DOMAIN r = {"errorCode", "errorMessage", "turnComplete"}
  /\ r.turnComplete = Some(TRUE)

ErrorResponsesOf(rs) == {j \in 1..Len(rs) : "errorCode" \in DOMAIN rs[j]}

\* C17: no exception leaves the generator; once an error was raised, during
\* the request conversion, the API call or the iteration of the stream, the
\* generator is over, what it yielded is what it had yielded before the error
\* followed by one error response, and that is its only error response;
\* without an error it yields no error response.
C17_ErrorsBecomeOneLastResponse ==
  /\ gen # "escaped"
  /\ IsDefined(failure) =>
       /\ gen = "done"
       /\ Len(yielded) = Len(failure[1].before) + 1
       /\ SubSeq(yielded, 1, Len(yielded) - 1) = failure[1].before
       /\ IsErrorResponse(yielded[Len(yielded)])
       /\ yielded[Len(yielded)].errorMessage = failure[1].error.text
       /\ ErrorResponsesOf(yielded) = {Len(yielded)}
  /\ ~IsDefined(failure) => ErrorResponsesOf(yielded) = {}

\* C17 happens: the stream fails after two partial responses were yielded,
\* which are kept before the error response
C17_Witness ==
  /\ gen = "done"
  /\ IsDefined(failure)
  /\ pc = "threw"
  /\ Len(failure[1].before) = 2
  /\ Len(yielded) = 3
  /\ yielded[1].partial = Some(TRUE)
  /\ IsErrorResponse(yielded[3])

-----------------------------------------------------------------------------
(* Properties of streaming calls in flight together *)

RECURSIVE YieldedFrom(_, _)
\* the responses a call running alone yields on these events, its
\* accumulator being a
YieldedFrom(events, a) ==
  IF events = << >> THEN << >>
  ELSE LET out == convertAnthropicStreamEvent(Head(events), a)
       IN (IF IsDefined(out.result.response) THEN <<out.result.response[1]>>
           ELSE << >>)
          \o (IF out.result.isComplete THEN << >>
              ELSE YieldedFrom(Tail(events), out.acc))

YieldedAlone(events) == YieldedFrom(events, createAnthropicStreamAccumulator)

\* C18: whatever the interleaving of the deliveries to two calls in flight,
\* on the same or on different instances, each call has yielded what it
\* yields when it receives the same events alone, and the accumulators of
\* two calls are different objects.
C18_CallsDoNotInterfere ==
  /\ \A c \in CallIds : calls[c].yielded = YieldedAlone(calls[c].delivered)
  /\ \A c, d \in CallIds :
       (c # d /\ calls[c].state # "idle" /\ calls[d].state # "idle")
       => calls[c].acc # calls[d].acc

\* C18 happens: two calls on the same instance, each having received an event
\* while the other was in the middle of its stream, both ended by
\* message_stop, one with the text a and one with a function call
C18_Witness ==
  /\ calls[1].llm = calls[2].llm
  /\ calls[1].state = "broke"
  /\ calls[2].state = "broke"
  /\ calls[1].sawPeer
  /\ calls[2].sawPeer
  /\ calls[1].delivered = <<TextDeltaEvent(0, <<"a">>), MessageStopEvent>>
  /\ calls[2].delivered
       = <<ToolUseStartEvent(0, "call_1", "get_weather"), MessageStopEvent>>
  /\ Len(calls[1].yielded) = 2
  /\ Len(calls[2].yielded) = 1

-----------------------------------------------------------------------------
(* Properties of provider registration *)

\* the position in the history of the last reset call of a provider, 0 if none
LastReset(provider) ==
  LET resets == {i \in 1..Len(effects) : effects[i] = ResetCall(provider)}
  IN IF resets = {} THEN 0 ELSE CHOOSE i \in resets : \A j \in resets : j <= i

\* the history of a provider since its last reset call (or since the start)
SinceReset(provider) ==
  SelectSeq(SubSeq(effects, LastReset(provider) + 1, Len(effects)),
            LAMBDA e : e.provider = provider)

\* the history of a provider up to its last reset call
BeforeReset(provider) ==
  SelectSeq(SubSeq(effects, 1, LastReset(provider)),
            LAMBDA e : e.provider = provider)

\* the calls of the register function of a provider in a history
RegisterCallsIn(history) == SelectSeq(history, LAMBDA e : e.kind = "registerCall")

\* C19: in the calls of the register function of a provider made since its
\* last reset (or since the start), the first call is followed by one call of
\* LLMRegistry.register with the class of the provider, every later call by
\* one warning and nothing else, the flag is set, and the stored configuration
\* is the one the first call left, whatever options the later calls passed.
C19_RegistrationIdempotent ==
  \A p \in Providers :
    LET history == SinceReset(p)
        made == RegisterCallsIn(history)
    IN /\ Len(history) = 2 * Len(made)
       /\ \A k \in 1..Len(made) :
            /\ history[2 * k - 1] = made[k]
            /\ history[2 * k] = IF k = 1 THEN RegistryRegister(p) ELSE ConsoleWarn(p)
       /\ made # << >> =>
            /\ registered[p]
            /\ configs[p] = made[1].arg

\* C19 happens: a provider never reset whose register function was called three
\* times, first with options and then with other options, and warned twice
C19_Witness ==
  \E p \in Providers :
    LET made == RegisterCallsIn(SinceReset(p))
    IN /\ LastReset(p) = 0
       /\ Len(made) = 3
       /\ IsDefined(made[1].arg)
       /\ IsDefined(made[2].arg)
       /\ made[2].arg # made[1].arg
       /\ made[3].arg # made[1].arg
       /\ Len(SelectSeq(effects, LAMBDA e : e = ConsoleWarn(p))) = 2
       /\ Len(SelectSeq(effects, LAMBDA e : e = RegistryRegister(p))) = 1

\* C20: for every provider, the flag is set exactly when its register function
\* was called since its last reset (or since the start); with no such call
\* after a reset no configuration is stored for it; and the first call after a
\* reset calls LLMRegistry.register again and leaves its own options as the
\* stored configuration.
C20_RegisteredSinceReset ==
  \A p \in Providers :
    LET history == SinceReset(p)
        made == RegisterCallsIn(history)
    IN /\ isRegistered(p, RegisterState) <=> made # << >>
       /\ (LastReset(p) > 0 /\ made = << >>) =>
            getProviderConfig(configs, p) = Undefined
       /\ (LastReset(p) > 0 /\ made # << >>) =>
            /\ history[1] = made[1]
            /\ history[2] = RegistryRegister(p)
            /\ getProviderConfig(configs, p) = made[1].arg

\* C20 happens: a provider registered with options, reset, and registered again
\* with other options, which are now the stored configuration
C20_Witness ==
  \E p \in Providers :
    LET before == RegisterCallsIn(BeforeReset(p))
        made == RegisterCallsIn(SinceReset(p))
    IN /\ LastReset(p) > 0
       /\ before # << >>
       /\ IsDefined(before[1].arg)
       /\ made # << >>
       /\ IsDefined(made[1].arg)
       /\ made[1].arg # before[1].arg
       /\ registered[p]
       /\ configs[p] = made[1].arg

-----------------------------------------------------------------------------
(* Properties of registration and of the configuration store together *)

\* this step is a call of the register function of provider p with options o
RegisterStep(p, o) ==
  /\ Len(effects') = Len(effects) + 2
  /\ SubSeq(effects', 1, Len(effects)) = effects
  /\ effects'[Len(effects) + 1] = RegisterCall(p, o)

\* C21 as stated: a call of a register function without options leaves the
\* store as it was, and a call with options leaves those options as the stored
\* configuration of its provider.
C21_OptionsStoredOnEveryCall ==
  [][\A p \in Providers, o \in RegisterOptions :
       RegisterStep(p, o) =>
         IF IsDefined(o)
         THEN configs' = [configs EXCEPT ![p] = o]
         ELSE configs' = configs]_vars

\* C21: a call of a register function without options leaves the store as it
\* was (nothing stored stays nothing, a stored configuration is retained); a
\* call with options on a provider not yet registered leaves exactly those
\* options as the stored configuration of that provider and the other
\* providers' entries as they were; a call with options on a provider already
\* registered leaves the store as it was.
C21_OptionsStoredOnFirstCall ==
  [][\A p \in Providers, o \in RegisterOptions :
       RegisterStep(p, o) =>
         IF IsDefined(o) /\ ~registered[p]
         THEN configs' = [configs EXCEPT ![p] = o]
         ELSE configs' = configs]_vars

\* C21 happens: one provider had a configuration stored directly and was then
\* registered without options, the configuration being retained, and another
\* provider was registered with options, now its stored configuration
C21_Witness ==
  \E p, q \in Providers, o \in StoredOptions :
    /\ Len(effects) = 5
    /\ effects[1] = ConfigCall("setProviderConfig", p, Some(o))
    /\ effects[2] = RegisterCall(p, Undefined)
    /\ effects[3] = RegistryRegister(p)
    /\ configs[p] = Some(o)
    /\ o # << >>
    /\ q # p
    /\ effects[4].kind = "registerCall"
    /\ IsDefined(effects[4].arg)
    /\ effects[4].provider = q
    /\ configs[q] = effects[4].arg

-----------------------------------------------------------------------------
(* Properties of the configuration store *)

\* the greatest element of a set of positions, 0 when there is none
LastOf(positions) ==
  IF positions = {} THEN 0 ELSE CHOOSE i \in positions : \A j \in positions : j <= i

\* the position in the history of the last call that set the entry of p
LastSet(p) ==
  LastOf({i \in 1..Len(effects) :
            /\ effects[i].kind \in {"setProviderConfig", "setConfig"}
            /\ effects[i].provider = p})

\* the position in the history of the last call that reset the entry of p
LastCleared(p) ==
  LastOf({i \in 1..Len(effects) :
            \/ /\ effects[i].kind \in {"resetProviderConfig", "resetConfig"}
               /\ effects[i].provider = p
            \/ effects[i].kind = "resetAllConfigs"})

\* C29: after any sequence of setProviderConfig, resetProviderConfig,
\* resetAllConfigs, setConfig and resetConfig calls, getProviderConfig(p) is the
\* options of the last set for p (setConfig being a set for "ai-gateway") when
\* no reset of p, resetConfig for "ai-gateway" or resetAllConfigs came after
\* it, with the properties of those options only, and is undefined otherwise;
\* getConfig() is the entry of "ai-gateway", or the empty object when unset.
C29_StoreIsMapPerProvider ==
  /\ \A p \in Providers :
       getProviderConfig(configs, p)
         = IF LastSet(p) > LastCleared(p) THEN effects[LastSet(p)].arg ELSE Undefined
  /\ getConfig(configs)
       = IF LastSet("ai-gateway") > LastCleared("ai-gateway")
         THEN effects[LastSet("ai-gateway")].arg[1] ELSE << >>

\* C29 happens: options with two properties were set for a provider, then
\* options with one property, which alone are stored, while another provider's
\* entry set before is still there
C29_Witness ==
  \E p, q \in Providers :
    /\ p # q
    /\ Len(effects) = 3
    /\ effects[1].provider = q
    /\ effects[1].kind \in {"setProviderConfig", "setConfig"}
    /\ effects[2] = ConfigCall("setProviderConfig", p,
                      Some(<<Entry("apiKey", "key-2"), Entry("baseURL", "https://test.com")>>))
    /\ effects[3] = ConfigCall("setProviderConfig", p, Some(<<Entry("apiKey", "key-1")>>))
    /\ configs[p] = Some(<<Entry("apiKey", "key-1")>>)
    /\ configs[q] = effects[1].arg

\* C29 happens also for the resets: a provider's entry was set and
\* resetAllConfigs or a reset of it came after, and getConfig() is the empty
\* object
C29_WitnessReset ==
  /\ Len(effects) = 3
  /\ effects[1].kind = "setConfig"
  /\ effects[2].kind = "setProviderConfig"
  /\ effects[3].kind = "resetAllConfigs"
  /\ getConfig(configs) = << >>

-----------------------------------------------------------------------------
(* Properties of the construction of the LLM instances *)

\* the environment variables that give a setting of a provider, in the order
\* they are consulted
EnvLevel(provider, setting) ==
  CASE provider = "anthropic" /\ setting = "apiKey" -> <<"ANTHROPIC_API_KEY">>
    [] provider = "ai-gateway" /\ setting = "baseURL" ->
         <<"AI_GATEWAY_URL", "OPENAI_BASE_URL">>
    [] provider = "ai-gateway" /\ setting = "apiKey" ->
         <<"AI_GATEWAY_API_KEY", "OPENAI_API_KEY">>
    [] provider = "openrouter" /\ setting = "apiKey" -> <<"OPENROUTER_API_KEY">>
    [] provider = "openrouter" /\ setting = "siteUrl" -> <<"OPENROUTER_SITE_URL">>
    [] provider = "openrouter" /\ setting = "appName" -> <<"OPENROUTER_APP_NAME">>
    [] OTHER -> << >>

\* the default value of a setting of a provider, if it has one
DefaultLevel(provider, setting) ==
  CASE provider = "anthropic" /\ setting = "maxTokens" ->
         Some(DEFAULT_ANTHROPIC_MAX_TOKENS)
    [] provider = "ai-gateway" /\ setting = "baseURL" -> Some(DEFAULT_BASE_URL)
    [] provider = "openrouter" /\ setting = "baseURL" -> Some(OPENROUTER_BASE_URL)
    [] provider \in Providers /\ setting = "apiKey" -> Some("")
    [] OTHER -> Undefined

\* the levels of a setting for an instance, highest priority first: instance
\* configuration, global provider configuration, environment variables, default
LevelsOf(inst, setting, store, environment) ==
  LET provider == ProviderOf(inst)
      names == EnvLevel(provider, setting)
      stored == store[provider]
  IN <<Prop(inst.config, setting),
       IF IsDefined(stored) THEN Prop(stored[1], setting) ELSE Undefined>>
     \o [i \in 1..Len(names) |-> environment[names[i]]]
     \o <<DefaultLevel(provider, setting)>>

\* the value of the first level that is defined, undefined when none is
HighestDefined(levels) ==
  LET defined == {i \in 1..Len(levels) : IsDefined(levels[i])}
  IN IF defined = {} THEN Undefined
     ELSE levels[CHOOSE i \in defined : \A j \in defined : i <= j]

\* the settings the constructor of a provider's class resolves
ResolvedSettings(provider) ==
  CASE provider = "anthropic" -> {"apiKey", "maxTokens"}
    [] provider = "ai-gateway" -> {"apiKey", "baseURL"}
    [] provider = "openrouter" -> {"apiKey", "baseURL", "siteUrl", "appName"}

\* C22: for every instance constructed and each of the settings apiKey,
\* baseURL, maxTokens, siteUrl and appName, the value the instance works with is
\* the value of the highest-priority level at which the setting is defined
\* (instance configuration, global provider configuration, environment
\* variables, default), whatever levels are defined.
C22_SettingsFollowPriority ==
  \A i \in 1..Len(instances) :
    \A k \in 1..Len(SettingKeys) :
      instances[i][SettingKeys[k]]
        = HighestDefined(LevelsOf(instances[i], SettingKeys[k], configs, env))

\* the same for the settings the constructor of each class resolves: all but
\* the baseURL of an AnthropicLlm
ResolvedSettingsFollowPriority ==
  \A i \in 1..Len(instances) :
    \A setting \in ResolvedSettings(ProviderOf(instances[i])) :
      instances[i][setting]
        = HighestDefined(LevelsOf(instances[i], setting, configs, env))

\* an AnthropicLlm was given a baseURL in its config and its client was built
\* without it
BaseURLIgnored ==
  \E i \in 1..Len(instances) :
    /\ instances[i].class = "AnthropicLlm"
    /\ IsDefined(Prop(instances[i].config, "baseURL"))
    /\ instances[i].baseURL = Undefined

-----------------------------------------------------------------------------
(* Properties of instances in use *)

-----------------------------------------------------------------------------
(* Further properties of the stream converter *)

\* C27: in the terminal response of a stream, the args of every function-call
\* part is a JSON object, whatever input string was accumulated for its
\* tool use.
C27_ArgsAreObjects ==
  AfterStop =>
    \A j \in 1..Len(ResultParts) :
      IsFunctionCallPart(ResultParts[j])
        => ResultParts[j].functionCall.args.kind = "object"

-----------------------------------------------------------------------------
(* Properties of createErrorResponse *)

\* the error caught and the response made of it
CaughtError == failure[1].error
CaughtResponse == yielded[Len(yielded)]

\* the error is an object, not null, with a status property that is a number
HasNumericStatus(error) ==
  /\ error.type = "object"
  /\ IsDefined(error.status)
  /\ error.status[1].type = "number"

\* C28: the response made of a caught error has errorCode API_ERROR_<status>
\* exactly when the error is a non-null object with a numeric status, and
\* <PREFIX>_ERROR with the prefix of the provider otherwise; its errorMessage is
\* the message of an Error instance and String(error) of any other value; its
\* turnComplete is true and it has no other field, so no content.
C28_ErrorsClassified ==
  IsDefined(failure) =>
    /\ DOMAIN CaughtResponse = {"errorCode", "errorMessage", "turnComplete"}
    /\ CaughtResponse.turnComplete = Some(TRUE)
    /\ (CaughtResponse.errorCode[1] = "API_ERROR_") <=> HasNumericStatus(CaughtError)
    /\ HasNumericStatus(CaughtError) =>
         CaughtResponse.errorCode = <<"API_ERROR_", CaughtError.status[1].value>>
    /\ ~HasNumericStatus(CaughtError) =>
         CaughtResponse.errorCode = <<failure[1].prefix, "_ERROR">>
    /\ CaughtError.isError => CaughtResponse.errorMessage = CaughtError.text
    /\ ~CaughtError.isError =>
         CaughtResponse.errorMessage
           = (CASE CaughtError.type = "string" -> CaughtError.text
                [] CaughtError.type = "number" -> CaughtError.text
                [] CaughtError.type = "null" -> "null"
                [] CaughtError.type = "undefined" -> "undefined"
                [] CaughtError.type = "object" -> "[object Object]")

\* C28 happens: an Error whose status is the string 429 was caught by an
\* OpenRouterLlm and classified by the prefix
C28_Witness ==
  /\ IsDefined(failure)
  /\ CaughtError.isError
  /\ IsDefined(CaughtError.status)
  /\ CaughtError.status[1].type = "string"
  /\ failure[1].prefix = "OPENROUTER"
  /\ CaughtResponse.errorCode = <<"OPENROUTER", "_ERROR">>
  /\ CaughtResponse.errorMessage = "rate limited"

-----------------------------------------------------------------------------
(* Properties of the streaming loop and the responses it yields *)

\* the responses of the results the loop has had from the converter, in order
ResponsesOf(rs) ==
  LET F[j \in 0..Len(rs)] ==
        IF j = 0 THEN << >>
        ELSE IF IsDefined(rs[j].response)
             THEN Append(F[j - 1], rs[j].response[1])
             ELSE F[j - 1]
  IN F[Len(rs)]

\* the converter has returned isComplete = true
CompleteReturned == \E j \in 1..Len(results) : results[j].isComplete

\* the positions of the yielded responses that have turnComplete = true
TurnCompleteAt == {k \in 1..Len(yielded) : yielded[k].turnComplete = Some(TRUE)}

\* C24: in the streaming loop, once the converter has returned isComplete =
\* true no further event is taken from the stream or passed to the converter
\* (the complete result is the last result and the loop has left), and no
\* further response is yielded (the yielded responses are those of the results);
\* every response yielded before the complete result has partial = true, so at
\* most one yielded response has turnComplete = true and it is the last.
C24_NothingAfterComplete ==
  pc # "threw" =>
    /\ \A j \in 1..Len(results) :
         results[j].isComplete => (j = Len(results) /\ pc = "broke")
    /\ yielded = ResponsesOf(results)
    /\ \A k \in 1..Len(yielded) :
         (k < Len(yielded) \/ ~CompleteReturned) =>
           (yielded[k].partial = Some(TRUE) /\ yielded[k].turnComplete # Some(TRUE))
    /\ Cardinality(TurnCompleteAt) <= 1
    /\ TurnCompleteAt \subseteq {Len(yielded)}

\* C24 happens: two partial responses were yielded, then the complete result
\* ended the loop with the one response that has turnComplete = true
C24_Witness ==
  /\ pc = "broke"
  /\ Len(yielded) = 3
  /\ yielded[1].partial = Some(TRUE)
  /\ yielded[2].partial = Some(TRUE)
  /\ TurnCompleteAt = {3}
  /\ results[Len(results)].isComplete

-----------------------------------------------------------------------------
(* Streamed and complete conversion of one message *)

\* the message has been streamed to its end and converted whole
BothDone == pc = "broke" /\ IsDefined(llmResponse)

\* the terminal response of the stream, and the response of the whole message
StreamedResponse == yielded[Len(yielded)]
WholeResponse == llmResponse[1]

PartsOf(content) == IF IsDefined(content) THEN content[1].parts ELSE << >>

RECURSIVE TextOf(_)
\* the texts of the text parts, concatenated
TextOf(parts) ==
  IF parts = << >> THEN << >>
  ELSE (IF IsTextPart(Head(parts)) THEN Head(parts).text ELSE << >>)
       \o TextOf(Tail(parts))

IsNamedCall(p) == IsFunctionCallPart(p) /\ p.functionCall.name # ""

\* the parts with the text parts merged into one leading part, none when the
\* text is empty, and the function calls without name left out
Merged(parts) ==
  (IF TextOf(parts) # << >> THEN <<TextPart(TextOf(parts))>> ELSE << >>)
  \o SelectSeq(parts, IsNamedCall)

\* C25 as stated: the terminal response of the streamed message has the same
\* content parts in the same order, the same turnComplete and the same usage
\* metadata as the response of the whole message.
C25_StreamedEqualsWhole ==
  BothDone =>
    /\ StreamedResponse.content = WholeResponse.content
    /\ StreamedResponse.turnComplete = WholeResponse.turnComplete
    /\ StreamedResponse.usageMetadata = WholeResponse.usageMetadata

\* C25 amended: the terminal response of the streamed message has the same
\* turnComplete as the response of the whole message; its parts are those of
\* the whole message's response with the text parts merged into one leading
\* text part (none when the text is empty) and the function calls of empty name
\* left out, the other function calls in the same order with the same id, name
\* and args; its usage metadata is the same, except that it has none when both
\* token counts are 0.
C25_StreamedIsMergedWhole ==
  BothDone =>
    /\ StreamedResponse.turnComplete = WholeResponse.turnComplete
    /\ PartsOf(StreamedResponse.content) = Merged(PartsOf(WholeResponse.content))
    /\ IsDefined(StreamedResponse.content)
         <=> (Merged(PartsOf(WholeResponse.content)) # << >>)
    /\ StreamedResponse.usageMetadata
         = (IF message[1].usage[1] = Usage(0, 0) THEN Undefined
            ELSE WholeResponse.usageMetadata)

\* C25 happens: a message of a tool_use block followed by a text block was
\* streamed and converted whole; the streamed response has the text part
\* first, the whole one the function call
C25_Witness ==
  /\ BothDone
  /\ Len(message[1].content) = 2
  /\ message[1].content[1].type = "tool_use"
  /\ message[1].content[2] = TextBlock(<<"b", "c">>)
  /\ IsFunctionCallPart(PartsOf(WholeResponse.content)[1])
  /\ PartsOf(StreamedResponse.content)[1] = TextPart(<<"b", "c">>)
  /\ PartsOf(StreamedResponse.content)[2] = PartsOf(WholeResponse.content)[1]
  /\ StreamedResponse.usageMetadata = WholeResponse.usageMetadata

\* the two responses are equal for a message of a text block followed by a
\* tool_use block
StreamedAndWholeEqual ==
  /\ BothDone
  /\ Len(message[1].content) = 2
  /\ message[1].content[1].type = "text"
  /\ message[1].content[2].type = "tool_use"
  /\ StreamedResponse = WholeResponse

-----------------------------------------------------------------------------
(* Properties of the round trip through both converters *)

\* the request made of the response has been converted
RoundTripDone == request # << >> /\ IsDefined(output)

\* the text blocks of the message are non-empty
TextBlocksNonEmpty ==
  \A j \in 1..Len(message[1].content) :
    message[1].content[j].type = "text" => message[1].content[j].text # << >>

\* C26: for a message whose text blocks are non-empty, the content of its
\* response, placed as a model turn after a user turn and converted as a
\* request, gives an assistant message after the user's whose blocks are the
\* text and tool_use blocks of the message, in the same order, with the same
\* ids, names and inputs.
C26_RoundTripPreservesBlocks ==
  (RoundTripDone /\ TextBlocksNonEmpty) =>
    /\ Len(output[1].messages) = 2
    /\ output[1].messages[1].role = "user"
    /\ output[1].messages[2].role = "assistant"
    /\ output[1].messages[2].content = BlockContent(PartBlocksOfMessage)

\* C26 happens: a message of a text block and a tool_use block went through
\* both converters
C26_Witness ==
  /\ RoundTripDone
  /\ TextBlocksNonEmpty
  /\ Len(message[1].content) = 2
  /\ message[1].content[1] = TextBlock(<<"a">>)
  /\ message[1].content[2].type = "tool_use"
  /\ message[1].content[2].id = "call_1"
  /\ output[1].messages[2].content.blocks[2].id = "call_1"

\* an empty text block does not come back from the round trip
EmptyTextBlockLost ==
  /\ RoundTripDone
  /\ ~TextBlocksNonEmpty
  /\ Len(output[1].messages) = 2
  /\ output[1].messages[2].content # BlockContent(PartBlocksOfMessage)

-----------------------------------------------------------------------------
(* Properties of the format-A stream converter *)

\* the indices fragments have arrived at
SeenIndices == {i \in Indices : IsDefined(regs[i])}

\* the entry the fragments seen at index i make: id and name of the first one,
\* the argument chunks in arrival order
EntryOf(i) ==
  ToolCallAccumulator(regs[i][1].id, regs[i][1].name, Concat(regs[i][1].frags))

\* the function-call part of the entry of index i in the terminal response
CallPartOf(i) ==
  FunctionCallPart(EntryOf(i).id, EntryOf(i).name,
                   IF JsonParse(EntryOf(i).arguments).ok
                   THEN JsonParse(EntryOf(i).arguments).val
                   ELSE EmptyObject)

\* C23: on a fresh accumulator, the tool-call fragments are grouped by index:
\* before the terminal chunk the accumulator holds one entry per index seen,
\* with the id and name of the first fragment at that index and the argument
\* chunks of all its fragments in arrival order; a chunk of fragments emits no
\* response; the terminal chunk gives a response with turnComplete = true
\* whose parts are the accumulated text as one text part, if non-empty,
\* followed by one function-call part per entry with the parsed arguments or
\* {} when they do not parse, and it clears the accumulator.
C23_FragmentsGroupedByIndex ==
  /\ lastEvent.type \in {"text", "tool_calls"} =>
       /\ acc.text = Concat(deltas)
       /\ MapKeys(acc.toolCalls) = SeenIndices
       /\ Len(acc.toolCalls) = Cardinality(SeenIndices)
       /\ \A i \in SeenIndices :
            acc.toolCalls[MapGet(acc.toolCalls, i)[1]].value = EntryOf(i)
  /\ lastEvent.type = "tool_calls" => lastResult = NoResponse
  /\ lastEvent.type = "finish" =>
       LET response == lastResult.response[1]
           parts == PartsOf(response.content)
           text == IF Concat(deltas) # << >> THEN <<TextPart(Concat(deltas))>>
                   ELSE << >>
       IN /\ lastResult.isComplete
          /\ response.turnComplete = Some(TRUE)
          /\ SubSeq(parts, 1, Len(text)) = text
          /\ Len(parts) = Len(text) + Cardinality(SeenIndices)
          /\ \A i \in SeenIndices :
               \E j \in (Len(text) + 1)..Len(parts) : parts[j] = CallPartOf(i)
          /\ acc = createStreamAccumulator

\* C23 happens: a text, two fragments in one chunk for two indices and a later
\* fragment for index 0, then the terminal chunk: the response has the text
\* part, the call of index 0 with parsed arguments and the call of index 1
\* with {} for arguments that do not parse
C23_Witness ==
  /\ lastEvent.type = "finish"
  /\ Len(results) = 4
  /\ deltas = <<<<"a">>>>
  /\ regs[0] = Some([id |-> "call_1", name |-> "get_weather",
                     frags |-> <<<<"{">>, <<"k", ":", "1", "}">>>>])
  /\ regs[1] = Some([id |-> "call_2", name |-> "get_time", frags |-> <<<<"{">>>>])
  /\ PartsOf(lastResult.response[1].content)
       = <<TextPart(<<"a">>),
           FunctionCallPart("call_1", "get_weather",
                            JsonValue("object", 0, <<JsonValue("number", 1, << >>)>>)),
           FunctionCallPart("call_2", "get_time", EmptyObject)>>

\* the loop of OpenAICompatibleLlm.streamResponse yields partial responses,
\* then at most one response with turnComplete = true, the last
ChunkLoopEndsAtComplete ==
  /\ \A j \in 1..Len(results) :
       results[j].isComplete => (j = Len(results) /\ pc = "broke")
  /\ yielded = ResponsesOf(results)
  /\ \A k \in 1..Len(yielded) :
       (k < Len(yielded) \/ ~CompleteReturned) => yielded[k].partial = Some(TRUE)
  /\ TurnCompleteAt \subseteq {Len(yielded)}

====
